---- MODULE Spec2Model ----
(***************************************************************************)
(* Model of the polytope viewer: the mesh builder of viewer.js             *)
(* (triangulateFaces, updatePolytopeMesh and its edge extraction) and the  *)
(* loading layer of main.js / ui.js that calls it.                         *)
(*                                                                         *)
(* JSON values.  A polytope description arrives through JSON.parse, so a   *)
(* faces value, a face and a face entry can each be any JSON value.  A     *)
(* face entry is modelled as an integer: a vertex index n >= 0 stands for  *)
(* itself and NonNumeric stands for every value whose typeof is not        *)
(* 'number' (a string such as "x", null, an object).  A container value    *)
(* is a record [kind, elems]:                                              *)
(*   kind = "array"   an Array with the elements elems;                    *)
(*   kind = "null"    a falsy value (null, undefined, a missing property); *)
(*   kind = "object"  a truthy value that is not an Array and whose        *)
(*                    .length and [i] read as Len(elems) and elems[i+1]    *)
(*                    (an array-like object, a string).                    *)
(***************************************************************************)
EXTENDS Integers, Sequences, FiniteSets, TLC

\* ------------------------------------------------------------------ bounds
MaxVertex == 2
MaxFaceLen == 4
MaxFaces == 2
MaxTotal == 6

MaxEdgeTotal == 5

\* The viewer on its own: increments animate adds to a rotation before it
\* is reset, frames of a GIF export, exports with their progress
\* indicator in the document at a time.
MaxTurns == 2
MaxFrames == 2
MaxExports == 1

\* loader.js on its own: faces of the bodies a fetch can bring.
MaxBodyFaces == 2

\* gif-recorder.js on its own: seconds and frames per second of a
\* recording, calls of startRecording, calls of captureFrame functions.
MaxDuration == 2
MaxFps == 1
MaxStartCalls == 2
MaxCaptureCalls == 3

\* -------------------------------------------------------------- JSON values
NonNumeric == -1

IsNumber(e) == e # NonNumeric

Arr(s) == [kind |-> "array", elems |-> s]

Obj(s) == [kind |-> "object", elems |-> s]

Null == [kind |-> "null", elems |-> <<>>]

Truthy(v) == v.kind # "null"

IsArray(v) == v.kind = "array"

Length(v) == Len(v.elems)

At(v, i) == v.elems[i + 1]

Min(a, b) == IF a <= b THEN a ELSE b

Max(a, b) == IF a >= b THEN a ELSE b

\* ------------------------------------------------------- triangulateFaces
\* FanLoop with the second and third index of each triangle exchanged.
RECURSIVE FanLoop_SwappedWinding(_, _, _)
FanLoop_SwappedWinding(face, i, st) ==
    IF ~(i < Length(face) - 1)
    THEN st
    ELSE LET v0 == At(face, 0)
             v1 == At(face, i)
             v2 == At(face, i + 1)
         IN  IF ~IsNumber(v0) \/ ~IsNumber(v1) \/ ~IsNumber(v2)
             THEN FanLoop_SwappedWinding(face, i + 1, st)
             ELSE FanLoop_SwappedWinding(face, i + 1,
                     [triangulatedIndices |-> st.triangulatedIndices \o <<v0, v2, v1>>,
                      trianglesAddedCount |-> st.trianglesAddedCount + 1,
                      vertexIndexOffset   |-> st.vertexIndexOffset + 3])

\* FanLoop leaving the loop at the first triangle with a non-numeric index
\* (break where the code has continue).
RECURSIVE FanLoop_BreakOnInvalid(_, _, _)
FanLoop_BreakOnInvalid(face, i, st) ==
    IF ~(i < Length(face) - 1)
    THEN st
    ELSE LET v0 == At(face, 0)
             v1 == At(face, i)
             v2 == At(face, i + 1)
         IN  IF ~IsNumber(v0) \/ ~IsNumber(v1) \/ ~IsNumber(v2)
             THEN st
             ELSE FanLoop_BreakOnInvalid(face, i + 1,
                     [triangulatedIndices |-> st.triangulatedIndices \o <<v0, v1, v2>>,
                      trianglesAddedCount |-> st.trianglesAddedCount + 1,
                      vertexIndexOffset   |-> st.vertexIndexOffset + 3])

\* The fan loop stopping one triangle short of the end of the face.
RECURSIVE FanLoop_StopsBeforeLast(_, _, _)
FanLoop_StopsBeforeLast(face, i, st) ==
    IF ~(i < Length(face) - 2)
    THEN st
    ELSE LET v0 == At(face, 0)
             v1 == At(face, i)
             v2 == At(face, i + 1)
         IN  IF ~IsNumber(v0) \/ ~IsNumber(v1) \/ ~IsNumber(v2)
             THEN FanLoop_StopsBeforeLast(face, i + 1, st)
             ELSE FanLoop_StopsBeforeLast(face, i + 1,
                     [triangulatedIndices |-> st.triangulatedIndices \o <<v0, v1, v2>>,
                      trianglesAddedCount |-> st.trianglesAddedCount + 1,
                      vertexIndexOffset   |-> st.vertexIndexOffset + 3])

\* The fan loop of one face, from JS index i on.  st carries the three
\* locals the loop writes: triangulatedIndices, trianglesAddedCount and
\* vertexIndexOffset.
\* The fan loop pushing the positions 0, i, i + 1 in place of the entries.
RECURSIVE FanLoop_PushesPositions(_, _, _)
FanLoop_PushesPositions(face, i, st) ==
    IF ~(i < Length(face) - 1)
    THEN st
    ELSE LET v0 == At(face, 0)
             v1 == At(face, i)
             v2 == At(face, i + 1)
         IN  IF ~IsNumber(v0) \/ ~IsNumber(v1) \/ ~IsNumber(v2)
             THEN FanLoop_PushesPositions(face, i + 1, st)
             ELSE FanLoop_PushesPositions(face, i + 1,
                     [triangulatedIndices |-> st.triangulatedIndices \o <<0, i, i + 1>>,
                      trianglesAddedCount |-> st.trianglesAddedCount + 1,
                      vertexIndexOffset   |-> st.vertexIndexOffset + 3])

RECURSIVE FanLoop(_, _, _)
FanLoop(face, i, st) ==
    IF ~(i < Length(face) - 1)
    THEN st
    ELSE LET v0 == At(face, 0)
             v1 == At(face, i)
             v2 == At(face, i + 1)
         IN  IF ~IsNumber(v0) \/ ~IsNumber(v1) \/ ~IsNumber(v2)
             THEN FanLoop(face, i + 1, st)
             ELSE FanLoop(face, i + 1,
                     [triangulatedIndices |-> st.triangulatedIndices \o <<v0, v1, v2>>,
                      trianglesAddedCount |-> st.trianglesAddedCount + 1,
                      vertexIndexOffset   |-> st.vertexIndexOffset + 3])

\* ProcessFace recording as a group's start the offset after the face's
\* triangles instead of the offset before them.
ProcessFace_StartAfterLoop(acc, face) ==
    IF ~Truthy(face) \/ ~IsArray(face) \/ Length(face) < 3
    THEN acc
    ELSE LET groupStartIndex == acc.vertexIndexOffset
             st == FanLoop(face, 1,
                     [triangulatedIndices |-> acc.triangulatedIndices,
                      trianglesAddedCount |-> 0,
                      vertexIndexOffset   |-> acc.vertexIndexOffset])
         IN  IF st.trianglesAddedCount > 0
             THEN [triangulatedIndices |-> st.triangulatedIndices,
                   geometryGroups      |-> Append(acc.geometryGroups,
                        [start         |-> st.vertexIndexOffset,
                         count         |-> st.trianglesAddedCount * 3,
                         materialIndex |-> acc.validMaterialIndex]),
                   vertexIndexOffset   |-> st.vertexIndexOffset,
                   validMaterialIndex  |-> acc.validMaterialIndex + 1]
             ELSE [acc EXCEPT !.triangulatedIndices = st.triangulatedIndices,
                              !.vertexIndexOffset = st.vertexIndexOffset]

\* ProcessFace advancing the material index for a skipped face.
ProcessFace_SkipConsumesSlot(acc, face) ==
    IF ~Truthy(face) \/ ~IsArray(face) \/ Length(face) < 3
    THEN [acc EXCEPT !.validMaterialIndex = acc.validMaterialIndex + 1]
    ELSE LET groupStartIndex == acc.vertexIndexOffset
             st == FanLoop(face, 1,
                     [triangulatedIndices |-> acc.triangulatedIndices,
                      trianglesAddedCount |-> 0,
                      vertexIndexOffset   |-> acc.vertexIndexOffset])
         IN  IF st.trianglesAddedCount > 0
             THEN [triangulatedIndices |-> st.triangulatedIndices,
                   geometryGroups      |-> Append(acc.geometryGroups,
                        [start         |-> groupStartIndex,
                         count         |-> st.trianglesAddedCount * 3,
                         materialIndex |-> acc.validMaterialIndex]),
                   vertexIndexOffset   |-> st.vertexIndexOffset,
                   validMaterialIndex  |-> acc.validMaterialIndex + 1]
             ELSE [acc EXCEPT !.triangulatedIndices = st.triangulatedIndices,
                              !.vertexIndexOffset = st.vertexIndexOffset]

\* ProcessFace without validMaterialIndex++ after a group.
ProcessFace_SlotNotAdvanced(acc, face) ==
    IF ~Truthy(face) \/ ~IsArray(face) \/ Length(face) < 3
    THEN acc
    ELSE LET groupStartIndex == acc.vertexIndexOffset
             st == FanLoop(face, 1,
                     [triangulatedIndices |-> acc.triangulatedIndices,
                      trianglesAddedCount |-> 0,
                      vertexIndexOffset   |-> acc.vertexIndexOffset])
         IN  IF st.trianglesAddedCount > 0
             THEN [triangulatedIndices |-> st.triangulatedIndices,
                   geometryGroups      |-> Append(acc.geometryGroups,
                        [start         |-> groupStartIndex,
                         count         |-> st.trianglesAddedCount * 3,
                         materialIndex |-> acc.validMaterialIndex]),
                   vertexIndexOffset   |-> st.vertexIndexOffset,
                   validMaterialIndex  |-> acc.validMaterialIndex]
             ELSE [acc EXCEPT !.triangulatedIndices = st.triangulatedIndices,
                              !.vertexIndexOffset = st.vertexIndexOffset]

\* ProcessFace adding a group for every face of 3 or more entries, also
\* when no triangle was emitted for it.
ProcessFace_GroupForEmptyFan(acc, face) ==
    IF ~Truthy(face) \/ ~IsArray(face) \/ Length(face) < 3
    THEN acc
    ELSE LET groupStartIndex == acc.vertexIndexOffset
             st == FanLoop(face, 1,
                     [triangulatedIndices |-> acc.triangulatedIndices,
                      trianglesAddedCount |-> 0,
                      vertexIndexOffset   |-> acc.vertexIndexOffset])
         IN  IF st.trianglesAddedCount >= 0
             THEN [triangulatedIndices |-> st.triangulatedIndices,
                   geometryGroups      |-> Append(acc.geometryGroups,
                        [start         |-> groupStartIndex,
                         count         |-> st.trianglesAddedCount * 3,
                         materialIndex |-> acc.validMaterialIndex]),
                   vertexIndexOffset   |-> st.vertexIndexOffset,
                   validMaterialIndex  |-> acc.validMaterialIndex + 1]
             ELSE [acc EXCEPT !.triangulatedIndices = st.triangulatedIndices,
                              !.vertexIndexOffset = st.vertexIndexOffset]

\* ProcessFace advancing the material index for a face of 3 or more
\* entries that emitted no triangle.
ProcessFace_EmptyFanConsumesSlot(acc, face) ==
    IF ~Truthy(face) \/ ~IsArray(face) \/ Length(face) < 3
    THEN acc
    ELSE LET groupStartIndex == acc.vertexIndexOffset
             st == FanLoop(face, 1,
                     [triangulatedIndices |-> acc.triangulatedIndices,
                      trianglesAddedCount |-> 0,
                      vertexIndexOffset   |-> acc.vertexIndexOffset])
         IN  IF st.trianglesAddedCount > 0
             THEN [triangulatedIndices |-> st.triangulatedIndices,
                   geometryGroups      |-> Append(acc.geometryGroups,
                        [start         |-> groupStartIndex,
                         count         |-> st.trianglesAddedCount * 3,
                         materialIndex |-> acc.validMaterialIndex]),
                   vertexIndexOffset   |-> st.vertexIndexOffset,
                   validMaterialIndex  |-> acc.validMaterialIndex + 1]
             ELSE [acc EXCEPT !.triangulatedIndices = st.triangulatedIndices,
                              !.vertexIndexOffset = st.vertexIndexOffset,
                              !.validMaterialIndex = acc.validMaterialIndex + 1]

\* The body of the forEach callback for one face.  acc carries the four
\* variables of triangulateFaces the callback closes over.
ProcessFace(acc, face) ==
    IF ~Truthy(face) \/ ~IsArray(face) \/ Length(face) < 3
    THEN acc
    ELSE LET groupStartIndex == acc.vertexIndexOffset
             st == FanLoop(face, 1,
                     [triangulatedIndices |-> acc.triangulatedIndices,
                      trianglesAddedCount |-> 0,
                      vertexIndexOffset   |-> acc.vertexIndexOffset])
         IN  IF st.trianglesAddedCount > 0
             THEN [triangulatedIndices |-> st.triangulatedIndices,
                   geometryGroups      |-> Append(acc.geometryGroups,
                        [start         |-> groupStartIndex,
                         count         |-> st.trianglesAddedCount * 3,
                         materialIndex |-> acc.validMaterialIndex]),
                   vertexIndexOffset   |-> st.vertexIndexOffset,
                   validMaterialIndex  |-> acc.validMaterialIndex + 1]
             ELSE [acc EXCEPT !.triangulatedIndices = st.triangulatedIndices,
                              !.vertexIndexOffset = st.vertexIndexOffset]

RECURSIVE ForEachFace(_, _, _)
ForEachFace(faces, k, acc) ==
    IF k > Len(faces)
    THEN acc
    ELSE ForEachFace(faces, k + 1, ProcessFace(acc, faces[k]))

\* Reading a property of v (v.length, v[i], v.forEach) raises a TypeError:
\* v is null or undefined.
ReadRaises(v) == v.kind = "null"

\* The face callback with `face.length < 3` as its whole validation.
ProcessFaceRaises_NoFaceGuard(face) == ReadRaises(face)

\* The face callback raises an error: its reads of face.length and of
\* face[0], face[i], face[i + 1] come after `!face` and `!Array.isArray(face)`
\* have turned the face away.
ProcessFaceRaises(face) ==
    IF ~Truthy(face)
    THEN FALSE
    ELSE IF ~IsArray(face)
         THEN FALSE
         ELSE ReadRaises(face)

\* triangulateFaces raises an error: forEach is read off the faces value
\* after the value's own validation, and then some face callback raises.
triangulateFacesRaises(originalFacesData) ==
    IF ~Truthy(originalFacesData) \/ ~IsArray(originalFacesData)
    THEN FALSE
    ELSE \/ ReadRaises(originalFacesData)
         \/ \E k \in 1..Length(originalFacesData) :
                ProcessFaceRaises(originalFacesData.elems[k])

triangulateFaces(originalFacesData) ==
    IF ~Truthy(originalFacesData) \/ ~IsArray(originalFacesData)
    THEN [indices |-> <<>>, groups |-> <<>>]
    ELSE LET acc == ForEachFace(originalFacesData.elems, 1,
                       [triangulatedIndices |-> <<>>,
                        geometryGroups      |-> <<>>,
                        vertexIndexOffset   |-> 0,
                        validMaterialIndex  |-> 0])
         IN  [indices |-> acc.triangulatedIndices, groups |-> acc.geometryGroups]

\* ------------------------------------------------------ edge extraction
\* EdgeLoop keying an edge by the pair as walked, without min and max.
RECURSIVE EdgeLoop_DirectedKey(_, _, _)
EdgeLoop_DirectedKey(face, i, st) ==
    IF ~(i < Length(face))
    THEN st
    ELSE LET idx1 == At(face, i)
             idx2 == At(face, (i + 1) % Length(face))
             edgeKey == <<idx1, idx2>>
         IN  IF ~IsNumber(idx1) \/ ~IsNumber(idx2)
             THEN EdgeLoop_DirectedKey(face, i + 1, st)
             ELSE IF edgeKey \notin st.uniqueEdges
                  THEN EdgeLoop_DirectedKey(face, i + 1,
                          [edgeIndices |-> st.edgeIndices \o <<idx1, idx2>>,
                           uniqueEdges |-> st.uniqueEdges \cup {edgeKey}])
                  ELSE EdgeLoop_DirectedKey(face, i + 1, st)

\* The edge loop pairing each entry with the next one only, the last
\* entry with none.
RECURSIVE EdgeLoop_NoWrap(_, _, _)
EdgeLoop_NoWrap(face, i, st) ==
    IF ~(i < Length(face) - 1)
    THEN st
    ELSE LET idx1 == At(face, i)
             idx2 == At(face, i + 1)
             edgeKey == <<Min(idx1, idx2), Max(idx1, idx2)>>
         IN  IF ~IsNumber(idx1) \/ ~IsNumber(idx2)
             THEN EdgeLoop_NoWrap(face, i + 1, st)
             ELSE IF edgeKey \notin st.uniqueEdges
                  THEN EdgeLoop_NoWrap(face, i + 1,
                          [edgeIndices |-> st.edgeIndices \o <<idx1, idx2>>,
                           uniqueEdges |-> st.uniqueEdges \cup {edgeKey}])
                  ELSE EdgeLoop_NoWrap(face, i + 1, st)

\* The edge loop storing each edge as (min, max).
RECURSIVE EdgeLoop_StoresCanonical(_, _, _)
EdgeLoop_StoresCanonical(face, i, st) ==
    IF ~(i < Length(face))
    THEN st
    ELSE LET idx1 == At(face, i)
             idx2 == At(face, (i + 1) % Length(face))
             edgeKey == <<Min(idx1, idx2), Max(idx1, idx2)>>
         IN  IF ~IsNumber(idx1) \/ ~IsNumber(idx2)
             THEN EdgeLoop_StoresCanonical(face, i + 1, st)
             ELSE IF edgeKey \notin st.uniqueEdges
                  THEN EdgeLoop_StoresCanonical(face, i + 1,
                          [edgeIndices |-> st.edgeIndices \o edgeKey,
                           uniqueEdges |-> st.uniqueEdges \cup {edgeKey}])
                  ELSE EdgeLoop_StoresCanonical(face, i + 1, st)

\* The edge loop leaving the face at its first pair with a non-number.
RECURSIVE EdgeLoop_BreakOnInvalid(_, _, _)
EdgeLoop_BreakOnInvalid(face, i, st) ==
    IF ~(i < Length(face))
    THEN st
    ELSE LET idx1 == At(face, i)
             idx2 == At(face, (i + 1) % Length(face))
             edgeKey == <<Min(idx1, idx2), Max(idx1, idx2)>>
         IN  IF ~IsNumber(idx1) \/ ~IsNumber(idx2)
             THEN st
             ELSE IF edgeKey \notin st.uniqueEdges
                  THEN EdgeLoop_BreakOnInvalid(face, i + 1,
                          [edgeIndices |-> st.edgeIndices \o <<idx1, idx2>>,
                           uniqueEdges |-> st.uniqueEdges \cup {edgeKey}])
                  ELSE EdgeLoop_BreakOnInvalid(face, i + 1, st)

\* The inner loop of the edge extraction for one face, from JS index i on.
\* st carries edgeIndices and uniqueEdges.  The key
\* Math.min(idx1, idx2) + '_' + Math.max(idx1, idx2) is kept as the pair
\* <<min, max>>: the two decimal numerals joined by '_' determine the pair.
RECURSIVE EdgeLoop(_, _, _)
EdgeLoop(face, i, st) ==
    IF ~(i < Length(face))
    THEN st
    ELSE LET idx1 == At(face, i)
             idx2 == At(face, (i + 1) % Length(face))
             edgeKey == <<Min(idx1, idx2), Max(idx1, idx2)>>
         IN  IF ~IsNumber(idx1) \/ ~IsNumber(idx2)
             THEN EdgeLoop(face, i + 1, st)
             ELSE IF edgeKey \notin st.uniqueEdges
                  THEN EdgeLoop(face, i + 1,
                          [edgeIndices |-> st.edgeIndices \o <<idx1, idx2>>,
                           uniqueEdges |-> st.uniqueEdges \cup {edgeKey}])
                  ELSE EdgeLoop(face, i + 1, st)

\* The forEach callback turning away faces of fewer than three entries.
EdgeFace_NeedsThree(st, face) ==
    IF ~Truthy(face) \/ Length(face) < 3
    THEN st
    ELSE EdgeLoop(face, 0, st)

\* The forEach callback walking faces of a single entry too.
EdgeFace_WalksSingletons(st, face) ==
    IF ~Truthy(face) \/ Length(face) < 1
    THEN st
    ELSE EdgeLoop(face, 0, st)

\* The body of the forEach callback of the edge extraction for one face.
EdgeFace(st, face) ==
    IF ~Truthy(face) \/ Length(face) < 2
    THEN st
    ELSE EdgeLoop(face, 0, st)

RECURSIVE ForEachEdgeFace(_, _, _)
ForEachEdgeFace(faces, k, st) ==
    IF k > Len(faces)
    THEN st
    ELSE ForEachEdgeFace(faces, k + 1, EdgeFace(st, faces[k]))

\* An edge list read off the triangles of the triangulation instead of
\* the original faces.
RECURSIVE TriangleEdges(_, _, _)
TriangleEdges(indices, t, st) ==
    IF 3 * t > Len(indices)
    THEN st
    ELSE LET tri == <<indices[3 * t - 2], indices[3 * t - 1], indices[3 * t]>>
         IN  TriangleEdges(indices, t + 1, EdgeLoop(Arr(tri), 0, st))

ExtractEdges_FromTriangles(faces) ==
    TriangleEdges(triangulateFaces(faces).indices, 1,
                  [edgeIndices |-> <<>>, uniqueEdges |-> {}]).edgeIndices

\* edgeIndices as left by the edge extraction of updatePolytopeMesh.
ExtractEdges(faces) ==
    ForEachEdgeFace(faces.elems, 1, [edgeIndices |-> <<>>, uniqueEdges |-> {}]).edgeIndices

\* ------------------------------------------------------------ viewer state
VARIABLES currentPolytopeMesh, currentEdgesMesh, currentVerticesMesh,
          faceMaterials, isViewerReady

\* ------------------------------------------------- the calls under test
\* polytopeData is the argument of the latest updatePolytopeMesh call (or of
\* the call about to be made), pc the position of the caller.
VARIABLES polytopeData, triResult, threw, pc

\* ---------------------------------------------- application and page state
\* main.js: currentPolytopeFilename, currentColorScheme (by name); ui.js:
\* elements; pending: the loadAndDisplayPolytope calls suspended at their
\* await, by filename.
VARIABLES currentPolytopeFilename, currentColorScheme, elements, pending

\* ----------------------------------------------- rotation and GIF export
\* autoRotationEnabled of the viewer, and gifExports: the exportToGIF
\* calls whose progress indicator is in the document, each capturing
\* frames, rendering its GIF, or ended by an error of its frame capture.
VARIABLES autoRotationEnabled, gifExports

viewerVars == <<currentPolytopeMesh, currentEdgesMesh, currentVerticesMesh,
                faceMaterials, isViewerReady>>

callVars == <<polytopeData, triResult, threw, pc>>

appVars == <<currentPolytopeFilename, currentColorScheme, elements, pending>>

motionVars == <<autoRotationEnabled, gifExports>>

\* ------------------------------------------------ loader.js on its own
\* fetched: what the fetch of a loadPolytopeData call comes to; loaded: the
\* promise the call returned.
VARIABLES fetched, loaded

loaderVars == <<fetched, loaded>>

\* --------------------------------------------------------- gif-recorder.js
\* isRecording, gifRecorder, frameCount, targetFrames: the module's state,
\* gifRecorder being 0 for null and k for the GIF of the k-th recording
\* started.  recordings: for each recording started, its GIF (frames added,
\* those added through the captureFrame of another recording, render calls,
\* 'finished' events) and its captureFrame (the values it returned), with
\* the targetFrames it was started with.  startCalls, lastStart: the calls
\* of startRecording so far and what the latest returned.
VARIABLES isRecording, gifRecorder, frameCount, targetFrames, recordings,
          startCalls, lastStart

recorderVars == <<isRecording, gifRecorder, frameCount, targetFrames, recordings,
                  startCalls, lastStart>>

moduleVars == <<loaderVars, recorderVars>>

vars == <<viewerVars, callVars, appVars, motionVars, moduleVars>>

\* A null mesh reference, and the objects the references can hold.  The
\* face mesh keeps the index buffer and the groups given to its geometry.
\* The vertex positions of a description are taken to be pairwise further
\* apart than MERGE_VERTEX_TOLERANCE, so mergeVertices leaves the vertex
\* count alone and the mesh is built on faceGeometry itself.
\* The rotation of an object is kept as the number of increments animate
\* and the frame capture of exportToGIF have added to it since it was last
\* set to (0, 0, 0); a new object has none.
ZeroRotation == [animate |-> 0, capture |-> 0]

\* The radius of a vertex sphere, in thousandths (not on a mobile device).
VERTEX_SIZE == 30

NullMesh == [isNull |-> TRUE, index |-> <<>>, groups |-> <<>>, rotation |-> ZeroRotation]

FaceMesh(index, groups) ==
    [isNull |-> FALSE, index |-> index, groups |-> groups, rotation |-> ZeroRotation]

NullEdges == [isNull |-> TRUE, index |-> <<>>, rotation |-> ZeroRotation]

EdgesMesh(index) == [isNull |-> FALSE, index |-> index, rotation |-> ZeroRotation]

NullVertices == [isNull |-> TRUE, children |-> 0, size |-> 0, rotation |-> ZeroRotation]

VerticesGroup(n) ==
    [isNull |-> FALSE, children |-> n, size |-> VERTEX_SIZE, rotation |-> ZeroRotation]

\* Opacities are in hundredths.
defaultOpacity == 90

DefaultMaterial == [color |-> "#ffffff", opacity |-> defaultOpacity]

\* A polytope description as the loader hands it over: null, or an object
\* whose vertices and faces properties are JSON values.
NullData == [kind |-> "null", vertices |-> Null, faces |-> Null]

Data(vertices, faces) == [kind |-> "object", vertices |-> vertices, faces |-> faces]

\* The viewer after the cleanup block of updatePolytopeMesh.
Cleared ==
    [currentPolytopeMesh |-> NullMesh,
     currentEdgesMesh    |-> NullEdges,
     currentVerticesMesh |-> NullVertices,
     faceMaterials       |-> <<>>,
     isViewerReady       |-> FALSE,
     threw               |-> FALSE]

\* updatePolytopeMesh without its return on an empty triangulation.
updatePolytopeMesh_NoEmptyReturn(data) ==
    IF ~Truthy(data) \/ ~Truthy(data.vertices) \/ Length(data.vertices) = 0
       \/ ~Truthy(data.faces)
    THEN Cleared
    ELSE IF ~IsArray(data.vertices)
    THEN [Cleared EXCEPT !.threw = TRUE]
    ELSE LET tri == triangulateFaces(data.faces)
             faceIndices == tri.indices
             faceGroups == tri.groups
             materials == [i \in 1..Len(faceGroups) |-> DefaultMaterial]
             edgeIndices == ExtractEdges(data.faces)
         IN  IF \E i \in 1..Length(data.vertices) : ~Truthy(data.vertices.elems[i])
             THEN [Cleared EXCEPT !.currentPolytopeMesh = FaceMesh(faceIndices, faceGroups),
                                  !.faceMaterials = materials,
                                  !.threw = TRUE]
             ELSE [currentPolytopeMesh |-> FaceMesh(faceIndices, faceGroups),
                   currentEdgesMesh    |-> IF Len(edgeIndices) > 0
                                           THEN EdgesMesh(edgeIndices)
                                           ELSE NullEdges,
                   currentVerticesMesh |-> VerticesGroup(Length(data.vertices)),
                   faceMaterials       |-> materials,
                   isViewerReady       |-> TRUE,
                   threw               |-> FALSE]

\* updatePolytopeMesh with a cleanup that leaves the edge mesh in place.
updatePolytopeMesh_KeepsEdges(data) ==
    LET kept == [Cleared EXCEPT !.currentEdgesMesh = currentEdgesMesh]
    IN  IF ~Truthy(data) \/ ~Truthy(data.vertices) \/ Length(data.vertices) = 0
           \/ ~Truthy(data.faces)
        THEN kept
        ELSE IF ~IsArray(data.vertices)
        THEN [kept EXCEPT !.threw = TRUE]
        ELSE LET tri == triangulateFaces(data.faces)
                 faceIndices == tri.indices
                 faceGroups == tri.groups
                 materials == [i \in 1..Len(faceGroups) |-> DefaultMaterial]
                 edgeIndices == ExtractEdges(data.faces)
             IN  IF Len(faceIndices) = 0 \/ Len(faceGroups) = 0
                 THEN kept
                 ELSE IF \E i \in 1..Length(data.vertices) : ~Truthy(data.vertices.elems[i])
                 THEN [kept EXCEPT !.currentPolytopeMesh = FaceMesh(faceIndices, faceGroups),
                                   !.faceMaterials = materials,
                                   !.threw = TRUE]
                 ELSE [currentPolytopeMesh |-> FaceMesh(faceIndices, faceGroups),
                       currentEdgesMesh    |-> IF Len(edgeIndices) > 0
                                               THEN EdgesMesh(edgeIndices)
                                               ELSE kept.currentEdgesMesh,
                       currentVerticesMesh |-> VerticesGroup(Length(data.vertices)),
                       faceMaterials       |-> materials,
                       isViewerReady       |-> TRUE,
                       threw               |-> FALSE]

\* updatePolytopeMesh(polytopeData): the viewer state it leaves, and
\* whether it left by a TypeError (vertices.flat on a value that is not an
\* Array, vertex[0] on a null vertex) instead of returning.
\* updatePolytopeMesh validating its input before anything else, and
\* returning on invalid input with the viewer as it was.
updatePolytopeMesh_ValidatesFirst(data) ==
    IF ~Truthy(data) \/ ~Truthy(data.vertices) \/ Length(data.vertices) = 0
       \/ ~Truthy(data.faces)
    THEN [currentPolytopeMesh |-> currentPolytopeMesh,
          currentEdgesMesh    |-> currentEdgesMesh,
          currentVerticesMesh |-> currentVerticesMesh,
          faceMaterials       |-> faceMaterials,
          isViewerReady       |-> isViewerReady,
          threw               |-> FALSE]
    ELSE IF ~IsArray(data.vertices)
    THEN [Cleared EXCEPT !.threw = TRUE]
    ELSE LET tri == triangulateFaces(data.faces)
             faceIndices == tri.indices
             faceGroups == tri.groups
             materials == [i \in 1..Len(faceGroups) |-> DefaultMaterial]
             edgeIndices == ExtractEdges(data.faces)
         IN  IF Len(faceIndices) = 0 \/ Len(faceGroups) = 0
             THEN Cleared
             ELSE IF \E i \in 1..Length(data.vertices) : ~Truthy(data.vertices.elems[i])
             THEN [Cleared EXCEPT !.currentPolytopeMesh = FaceMesh(faceIndices, faceGroups),
                                  !.faceMaterials = materials,
                                  !.threw = TRUE]
             ELSE [currentPolytopeMesh |-> FaceMesh(faceIndices, faceGroups),
                   currentEdgesMesh    |-> IF Len(edgeIndices) > 0
                                           THEN EdgesMesh(edgeIndices)
                                           ELSE NullEdges,
                   currentVerticesMesh |-> VerticesGroup(Length(data.vertices)),
                   faceMaterials       |-> materials,
                   isViewerReady       |-> TRUE,
                   threw               |-> FALSE]

updatePolytopeMesh(data) ==
    IF ~Truthy(data) \/ ~Truthy(data.vertices) \/ Length(data.vertices) = 0
       \/ ~Truthy(data.faces)
    THEN Cleared
    ELSE IF ~IsArray(data.vertices)
    THEN [Cleared EXCEPT !.threw = TRUE]
    ELSE LET tri == triangulateFaces(data.faces)
             faceIndices == tri.indices
             faceGroups == tri.groups
             materials == [i \in 1..Len(faceGroups) |-> DefaultMaterial]
             edgeIndices == ExtractEdges(data.faces)
         IN  IF Len(faceIndices) = 0 \/ Len(faceGroups) = 0
             THEN Cleared
             ELSE IF \E i \in 1..Length(data.vertices) : ~Truthy(data.vertices.elems[i])
             THEN [Cleared EXCEPT !.currentPolytopeMesh = FaceMesh(faceIndices, faceGroups),
                                  !.faceMaterials = materials,
                                  !.threw = TRUE]
             ELSE [currentPolytopeMesh |-> FaceMesh(faceIndices, faceGroups),
                   currentEdgesMesh    |-> IF Len(edgeIndices) > 0
                                           THEN EdgesMesh(edgeIndices)
                                           ELSE NullEdges,
                   currentVerticesMesh |-> VerticesGroup(Length(data.vertices)),
                   faceMaterials       |-> materials,
                   isViewerReady       |-> TRUE,
                   threw               |-> FALSE]

\* isReady() on a viewer state v, and on the current one.
isReadyOf(v) ==
    v.isViewerReady /\ ~v.currentPolytopeMesh.isNull /\ Len(v.faceMaterials) > 0

isReady ==
    isViewerReady /\ ~currentPolytopeMesh.isNull /\ Len(faceMaterials) > 0

ViewerState ==
    [currentPolytopeMesh |-> currentPolytopeMesh,
     currentEdgesMesh    |-> currentEdgesMesh,
     currentVerticesMesh |-> currentVerticesMesh,
     faceMaterials       |-> faceMaterials,
     isViewerReady       |-> isViewerReady,
     threw               |-> FALSE]

SetViewer(v) ==
    /\ currentPolytopeMesh' = v.currentPolytopeMesh
    /\ currentEdgesMesh' = v.currentEdgesMesh
    /\ currentVerticesMesh' = v.currentVerticesMesh
    /\ faceMaterials' = v.faceMaterials
    /\ isViewerReady' = v.isViewerReady

\* ------------------------------------------------------------- inputs
FaceEntries == (0..(MaxVertex - 1)) \cup {NonNumeric}

SeqsUpTo(S, n) == UNION {[1..k -> S] : k \in 0..n}

\* The shape of a face value: its kind and its number of entries.
NullShape == [kind |-> "null", len |-> 0]

ArrayShape(n) == [kind |-> "array", len |-> n]

ObjectShape(n) == [kind |-> "object", len |-> n]

FaceShapes == {NullShape} \cup {ArrayShape(n) : n \in 0..MaxFaceLen}

RECURSIVE TotalLen(_)
TotalLen(shape) ==
    IF shape = <<>> THEN 0 ELSE Head(shape).len + TotalLen(Tail(shape))

\* Faces that are not Arrays but have entries: an array-like object of
\* three entries (the shortest that only the Array.isArray test turns
\* away), alone, twice, and before and after a face of three entries.
ObjectShapes ==
    {sh \in SeqsUpTo({ObjectShape(3), ArrayShape(3)}, 2) :
        \E k \in 1..Len(sh) : sh[k].kind = "object"}

\* The shapes of the faces lists: at most MaxFaces faces, null or Arrays of
\* at most MaxFaceLen entries each and MaxTotal entries together; and the
\* lists with array-like objects.
ListShapes ==
    {sh \in SeqsUpTo(FaceShapes, MaxFaces) : TotalLen(sh) <= MaxTotal} \cup ObjectShapes

\* The faces list of shape sh whose entries, face after face, are flat.
RECURSIVE BuildFaces(_, _)
BuildFaces(sh, flat) ==
    IF sh = <<>>
    THEN <<>>
    ELSE LET n == Head(sh).len
         IN  <<[kind |-> Head(sh).kind, elems |-> SubSeq(flat, 1, n)]>>
                 \o BuildFaces(Tail(sh), SubSeq(flat, n + 1, Len(flat)))

VertexList == Arr([i \in 1..MaxVertex |-> Arr(<<>>)])

\* ------------------------------------- the mesh builder called on an input
\* loader.js and gif-recorder.js as their modules leave them when imported,
\* no call of loadPolytopeData under examination.
NoResponse == [kind |-> "none", body |-> NullData]

NoPromise == [state |-> "none", value |-> NullData]

RecorderInit ==
    /\ isRecording = FALSE
    /\ gifRecorder = 0
    /\ frameCount = 0
    /\ targetFrames = 0
    /\ recordings = <<>>
    /\ startCalls = 0
    /\ lastStart = "none"

ModulesInit ==
    /\ fetched = NoResponse
    /\ loaded = NoPromise
    /\ RecorderInit

ViewerInit ==
    /\ currentPolytopeMesh = NullMesh
    /\ currentEdgesMesh = NullEdges
    /\ currentVerticesMesh = NullVertices
    /\ faceMaterials = <<>>
    /\ isViewerReady = FALSE
    /\ autoRotationEnabled = FALSE
    /\ gifExports = <<>>

\* main.js and ui.js as their modules leave them when imported: no file
\* selected, the "Face Index" scheme, the page's controls untouched.
NoFile == "null"

DEFAULT_COLOR_SCHEME_NAME == "Face Index"

ElementsInit(color) ==
    [loadingStatus             |-> FALSE,
     errorMessage              |-> "",
     polytopeSelectValue       |-> "",
     polytopeSelectDisabled    |-> FALSE,
     colorSchemeSelectValue    |-> "",
     colorSchemeSelectDisabled |-> FALSE,
     faceColorPickerValue      |-> color,
     faceColorPickerDisabled   |-> FALSE,
     faceOpacitySliderDisabled |-> FALSE]

AppInit(color) ==
    /\ currentPolytopeFilename = NoFile
    /\ currentColorScheme = DEFAULT_COLOR_SCHEME_NAME
    /\ elements = ElementsInit(color)
    /\ pending = <<>>

TriInit ==
    /\ ViewerInit
    /\ ModulesInit
    /\ AppInit("#ffffff")
    /\ \/ polytopeData \in {Data(VertexList, Null), Data(VertexList, Obj(<<>>))}
       \/ \E sh \in ListShapes : \E flat \in [1..TotalLen(sh) -> FaceEntries] :
              polytopeData = Data(VertexList, Arr(BuildFaces(sh, flat)))
    /\ triResult = [indices |-> <<>>, groups |-> <<>>]
    /\ threw = FALSE
    /\ pc = "start"

CallTriangulateFaces ==
    /\ pc = "start"
    /\ threw' = triangulateFacesRaises(polytopeData.faces)
    /\ triResult' = IF threw' THEN triResult ELSE triangulateFaces(polytopeData.faces)
    /\ pc' = "triangulated"
    /\ UNCHANGED <<moduleVars, motionVars, viewerVars, polytopeData, appVars>>

CallUpdatePolytopeMesh ==
    /\ pc = "start"
    /\ LET v == updatePolytopeMesh(polytopeData)
       IN  SetViewer(v) /\ threw' = v.threw
    /\ pc' = "updated"
    /\ UNCHANGED <<moduleVars, motionVars, polytopeData, triResult, appVars>>

\* triangulateFaces called on the faces of a description.
TriSpec == TriInit /\ [][CallTriangulateFaces]_vars

\* updatePolytopeMesh called on a description by a freshly initialised viewer.
MeshSpec == TriInit /\ [][CallUpdatePolytopeMesh]_vars

\* The descriptions the edge extraction is examined on: the faces lists of
\* at most MaxEdgeTotal entries together.
EdgeInit ==
    /\ ViewerInit
    /\ ModulesInit
    /\ AppInit("#ffffff")
    /\ \E sh \in {l \in ListShapes : TotalLen(l) <= MaxEdgeTotal} :
           \E flat \in [1..TotalLen(sh) -> FaceEntries] :
               polytopeData = Data(VertexList, Arr(BuildFaces(sh, flat)))
    /\ triResult = [indices |-> <<>>, groups |-> <<>>]
    /\ threw = FALSE
    /\ pc = "start"

\* updatePolytopeMesh, and with it the edge extraction, called on such a
\* description by a freshly initialised viewer.
EdgeSpec == EdgeInit /\ [][CallUpdatePolytopeMesh]_vars

\* =================================================================
\* The application: main.js driving ui.js, loader.js and the viewer
\* =================================================================
\* COLOR_SCHEMES by name; the colours of "Default Single" are null, here
\* the empty sequence.
COLOR_SCHEMES ==
    [n \in {"Default Single", "Face Index", "Pastel", "Grayscale"} |->
        CASE n = "Default Single" -> <<>>
          [] n = "Face Index" ->
                <<"#FF0000", "#FF7F00", "#FFFF00", "#00FF00", "#0000FF", "#4B0082",
                  "#8B00FF", "#FF1493", "#00CED1", "#FFD700", "#ADFF2F", "#BA55D3">>
          [] n = "Pastel" ->
                <<"#A8E6CF", "#DCEDC1", "#FFD3B6", "#FFAAA5", "#FF8B94",
                  "#77DD77", "#FDFD96", "#83CEEE", "#B19CD9", "#FEC8D8">>
          [] n = "Grayscale" ->
                <<"#F0F0F0", "#DCDCDC", "#C8C8C8", "#B4B4B4", "#A0A0A0",
                  "#8C8C8C", "#787878", "#646464", "#505050", "#3C3C3C">>]

SchemeNames == DOMAIN COLOR_SCHEMES

\* ------------------------------------------------------------------ ui.js
\* toggleFaceColorPicker on a page without the picker element.
toggleFaceColorPicker_NoPicker(el, enabled) == el

toggleFaceColorPicker(el, enabled) ==
    [el EXCEPT !.faceColorPickerDisabled = ~enabled]

\* showLoading with a list of controls that lacks the polytope select.
showLoading_KeepsSelectEnabled(el, isLoading) ==
    LET shown == [el EXCEPT !.loadingStatus = isLoading,
                            !.colorSchemeSelectDisabled = isLoading,
                            !.faceColorPickerDisabled = isLoading,
                            !.faceOpacitySliderDisabled = isLoading]
    IN  IF ~isLoading
        THEN toggleFaceColorPicker(shown, shown.colorSchemeSelectValue = "Default Single")
        ELSE shown

showLoading(el, isLoading) ==
    LET shown == [el EXCEPT !.loadingStatus = isLoading,
                            !.polytopeSelectDisabled = isLoading,
                            !.colorSchemeSelectDisabled = isLoading,
                            !.faceColorPickerDisabled = isLoading,
                            !.faceOpacitySliderDisabled = isLoading]
    IN  IF ~isLoading
        THEN toggleFaceColorPicker(shown, shown.colorSchemeSelectValue = "Default Single")
        ELSE shown

\* showErrorMessage that leaves the element alone for an empty message.
showErrorMessage_KeepsOld(el, message) ==
    IF message = "" THEN el ELSE [el EXCEPT !.errorMessage = message]

showErrorMessage(el, message) ==
    [el EXCEPT !.errorMessage = message]

setInitialSelections(el, polytopeFilename, schemeName) ==
    [el EXCEPT !.polytopeSelectValue = polytopeFilename,
               !.colorSchemeSelectValue = schemeName]

\* ------------------------------------------------- viewer style updates
\* applyColorScheme(schemeColors, singleHexColor) on a viewer state; a
\* null schemeColors is the empty sequence, a missing singleHexColor "".
applyColorScheme(v, schemeColors, singleHexColor) ==
    IF ~isReadyOf(v)
    THEN v
    ELSE IF Len(schemeColors) > 0
    THEN [v EXCEPT !.faceMaterials =
            [index \in 1..Len(@) |->
                [@[index] EXCEPT !.color =
                    schemeColors[((index - 1) % Len(schemeColors)) + 1]]]]
    ELSE IF singleHexColor # ""
    THEN [v EXCEPT !.faceMaterials =
            [index \in 1..Len(@) |-> [@[index] EXCEPT !.color = singleHexColor]]]
    ELSE v

\* updateFaceOpacity(opacityValue), the value in hundredths.
updateFaceOpacity(v, opacityValue) ==
    IF ~isReadyOf(v)
    THEN v
    ELSE LET clampedOpacity == Max(0, Min(100, opacityValue))
         IN  [v EXCEPT !.faceMaterials =
                [index \in 1..Len(@) |-> [@[index] EXCEPT !.opacity = clampedOpacity]]]

\* applyCurrentColorScheme() of main.js for the scheme named scheme.
applyCurrentColorScheme(v, scheme, el) ==
    IF ~isReadyOf(v)
    THEN v
    ELSE IF scheme = "Default Single"
    THEN applyColorScheme(v, <<>>, el.faceColorPickerValue)
    ELSE applyColorScheme(v, COLOR_SCHEMES[scheme], "")

\* --------------------------------------------------------------- loader.js
\* What a fetch of a description can come to: a network failure, a
\* response that is not ok, a body that is not JSON, or a parsed object.
NetworkError == [kind |-> "networkError", body |-> NullData]

HttpError == [kind |-> "httpError", body |-> NullData]

InvalidJson == [kind |-> "invalidJson", body |-> NullData]

Json(data) == [kind |-> "json", body |-> data]

\* loadPolytopeData: the description, or null.
loadPolytopeData(response) ==
    IF response.kind # "json"
    THEN NullData
    ELSE IF ~Truthy(response.body.vertices) \/ ~Truthy(response.body.faces)
    THEN NullData
    ELSE response.body

\* An error is raised inside the try block of loadPolytopeData: fetch
\* rejects, the response is not ok (the throw of line 22), response.json()
\* rejects, or the body is the JSON null, whose vertices cannot be read.
RaisedInTry(response) == response.kind # "json" \/ ReadRaises(response.body)

\* A catch block that hands the error on.
loadPolytopeDataCatch_Rethrows == [state |-> "rejected", value |-> NullData]

\* The catch block of loadPolytopeData: it logs and returns null.
loadPolytopeDataCatch == [state |-> "fulfilled", value |-> NullData]

\* The promise loadPolytopeData returns, once settled.
loadPolytopeDataPromise(response) ==
    IF RaisedInTry(response)
    THEN loadPolytopeDataCatch
    ELSE [state |-> "fulfilled", value |-> loadPolytopeData(response)]

\* The bodies a fetch can bring: the JSON null, and objects whose vertices
\* are missing or a list and whose faces are missing, an object, or a list
\* of at most MaxBodyFaces faces.
BodyFaces == {Null, Arr(<<0, 1>>), Arr(<<0, 1, 2>>)}

Bodies ==
    {NullData} \cup
    {Data(v, f) :
        v \in {Null, Arr(<<>>), Arr(<<Arr(<<>>)>>), Arr(<<Arr(<<>>), Arr(<<>>), Arr(<<>>)>>)},
        f \in {Null, Obj(<<>>)} \cup {Arr(l) : l \in SeqsUpTo(BodyFaces, MaxBodyFaces)}}

LoaderResponses == {NetworkError, HttpError, InvalidJson} \cup {Json(b) : b \in Bodies}

LoaderInit ==
    /\ ViewerInit
    /\ RecorderInit
    /\ AppInit("#ffffff")
    /\ polytopeData = NullData
    /\ triResult = [indices |-> <<>>, groups |-> <<>>]
    /\ threw = FALSE
    /\ pc = "loader"
    /\ fetched \in LoaderResponses
    /\ loaded = [state |-> "pending", value |-> NullData]

\* The fetch of an awaiting loadPolytopeData call settles and the call runs
\* to its end.
CallLoadPolytopeData ==
    /\ pc = "loader"
    /\ loaded.state = "pending"
    /\ loaded' = loadPolytopeDataPromise(fetched)
    /\ UNCHANGED <<viewerVars, callVars, appVars, motionVars, recorderVars, fetched>>

\* loadPolytopeData called on what a fetch can come to.
LoaderSpec == LoaderInit /\ [][CallLoadPolytopeData]_vars

\* The descriptions on the server: a tetrahedron, a cube, a triangular
\* prism, a square, a description none of whose faces gives a triangle,
\* one with an empty faces list, one with a null vertex, and one without a
\* faces property.
Points(n) == Arr([i \in 1..n |-> Arr(<<>>)])

PolytopeFiles ==
    [f \in {"tetrahedron.json", "cube.json", "prism.json", "square.json",
            "flat.json", "empty.json", "broken.json", "nofaces.json"} |->
        CASE f = "tetrahedron.json" ->
                Data(Points(4), Arr(<<Arr(<<0, 1, 2>>), Arr(<<0, 3, 1>>),
                                      Arr(<<0, 2, 3>>), Arr(<<1, 3, 2>>)>>))
          [] f = "cube.json" ->
                Data(Points(8), Arr(<<Arr(<<0, 3, 2, 1>>), Arr(<<4, 5, 6, 7>>),
                                      Arr(<<0, 1, 5, 4>>), Arr(<<1, 2, 6, 5>>),
                                      Arr(<<2, 3, 7, 6>>), Arr(<<3, 0, 4, 7>>)>>))
          [] f = "prism.json" ->
                Data(Points(6), Arr(<<Arr(<<0, 2, 1>>), Arr(<<3, 4, 5>>),
                                      Arr(<<0, 1, 4, 3>>), Arr(<<1, 2, 5, 4>>),
                                      Arr(<<2, 0, 3, 5>>)>>))
          [] f = "square.json" ->
                Data(Points(4), Arr(<<Arr(<<0, 1, 2, 3>>)>>))
          [] f = "flat.json" ->
                Data(Points(3), Arr(<<Arr(<<0, 1>>), Arr(<<0, NonNumeric, 2>>), Null>>))
          [] f = "empty.json" ->
                Data(Points(3), Arr(<<>>))
          [] f = "broken.json" ->
                Data(Arr(<<Arr(<<>>), Null, Arr(<<>>)>>), Arr(<<Arr(<<0, 1, 2>>)>>))
          [] f = "nofaces.json" ->
                Data(Points(3), Null)]

Filenames == DOMAIN PolytopeFiles

Responses(filename) ==
    {NetworkError, HttpError, InvalidJson, Json(PolytopeFiles[filename])}

PickerColors == {"#ffffff", "#3366cc"}

SliderValues == {0, 50, 100}

\* ----------------------------------------------------------------- main.js
Init ==
    /\ ViewerInit
    /\ ModulesInit
    /\ \E color \in PickerColors : AppInit(color)
    /\ polytopeData = NullData
    /\ triResult = [indices |-> <<>>, groups |-> <<>>]
    /\ threw = FALSE
    /\ pc = "boot"

\* loadAndDisplayPolytope(filename) up to its await, on the page state el.
LoadStart(el, filename) ==
    /\ elements' = showErrorMessage(showLoading(el, TRUE), "")
    /\ currentPolytopeFilename' = filename
    /\ pending' = Append(pending, filename)

\* initApp up to the await of the manifest.
InitApp ==
    /\ pc = "boot"
    /\ elements' = showLoading(elements, TRUE)
    /\ pc' = "listing"
    /\ UNCHANGED <<moduleVars, motionVars, viewerVars, polytopeData, triResult, threw,
                   currentPolytopeFilename, currentColorScheme, pending>>

\* The manifest cannot be fetched or is not a non-empty list: the catch
\* block of initApp, which stops the initialisation.
ManifestFails ==
    /\ pc = "listing"
    /\ elements' = showLoading(
            showErrorMessage(elements, "Error loading polytope list. Cannot initialize viewer."),
            FALSE)
    /\ pc' = "halted"
    /\ UNCHANGED <<moduleVars, motionVars, viewerVars, polytopeData, triResult, threw,
                   currentPolytopeFilename, currentColorScheme, pending>>

\* The manifest lists the files, defaultPolytope first: the rest of
\* initApp up to the await of the first load.
ManifestLoads ==
    /\ pc = "listing"
    /\ \E defaultPolytope \in Filenames :
          LoadStart(
              toggleFaceColorPicker(
                  setInitialSelections(elements, defaultPolytope, DEFAULT_COLOR_SCHEME_NAME),
                  currentColorScheme = "Default Single"),
              defaultPolytope)
    /\ pc' = "running"
    /\ UNCHANGED <<moduleVars, motionVars, viewerVars, polytopeData, triResult, threw, currentColorScheme>>

\* The rest of a suspended loadAndDisplayPolytope(filename) once the
\* loader has settled.
LoadSettles ==
    /\ pc = "running"
    /\ \E k \in 1..Len(pending) : \E response \in Responses(pending[k]) :
          LET filename == pending[k]
              data == loadPolytopeData(response)
              built == updatePolytopeMesh(data)
          IN  /\ pending' = SubSeq(pending, 1, k - 1) \o SubSeq(pending, k + 1, Len(pending))
              /\ IF Truthy(data) /\ ~built.threw
                 THEN /\ SetViewer(applyCurrentColorScheme(built, currentColorScheme, elements))
                      /\ polytopeData' = data
                      /\ elements' = showLoading(
                              [elements EXCEPT !.polytopeSelectValue = filename], FALSE)
                 ELSE IF Truthy(data)
                 THEN /\ SetViewer(updatePolytopeMesh(NullData))
                      /\ polytopeData' = NullData
                      /\ elements' = showLoading(
                              showErrorMessage(elements,
                                  "An unexpected error occurred while loading the file."),
                              FALSE)
                 ELSE /\ SetViewer(updatePolytopeMesh(NullData))
                      /\ polytopeData' = NullData
                      /\ elements' = showLoading(
                              showErrorMessage(elements,
                                  "Failed to load data for the file. Check console."),
                              FALSE)
    /\ UNCHANGED <<moduleVars, motionVars, triResult, threw, pc, currentPolytopeFilename, currentColorScheme>>

\* The user picks another file in the polytope dropdown.
handlePolytopeSelectionChange ==
    /\ pc = "running"
    /\ ~elements.polytopeSelectDisabled
    /\ \E selectedFilename \in Filenames \ {elements.polytopeSelectValue} :
          LET el == [elements EXCEPT !.polytopeSelectValue = selectedFilename]
          IN  IF selectedFilename # currentPolytopeFilename
              THEN LoadStart(el, selectedFilename)
              ELSE /\ elements' = el
                   /\ UNCHANGED <<currentPolytopeFilename, pending>>
    /\ UNCHANGED <<moduleVars, motionVars, viewerVars, polytopeData, triResult, threw, pc, currentColorScheme>>

\* The user picks another scheme in the colour scheme dropdown.
handleColorSchemeChange ==
    /\ pc = "running"
    /\ ~elements.colorSchemeSelectDisabled
    /\ \E schemeName \in SchemeNames \ {elements.colorSchemeSelectValue} :
          LET el == [elements EXCEPT !.colorSchemeSelectValue = schemeName]
          IN  /\ currentColorScheme' = schemeName
              /\ SetViewer(applyCurrentColorScheme(ViewerState, schemeName, el))
              /\ elements' = toggleFaceColorPicker(el, schemeName = "Default Single")
    /\ UNCHANGED <<moduleVars, motionVars, polytopeData, triResult, threw, pc, currentPolytopeFilename, pending>>

\* The user picks another colour in the face colour picker.
handleFaceColorChange ==
    /\ pc = "running"
    /\ ~elements.faceColorPickerDisabled
    /\ \E color \in PickerColors \ {elements.faceColorPickerValue} :
          LET el == [elements EXCEPT !.faceColorPickerValue = color]
          IN  /\ IF currentColorScheme # "Default Single"
                 THEN /\ elements' = toggleFaceColorPicker(
                              [el EXCEPT !.colorSchemeSelectValue = "Default Single"], TRUE)
                      /\ currentColorScheme' = "Default Single"
                 ELSE /\ elements' = el
                      /\ UNCHANGED currentColorScheme
              /\ SetViewer(applyColorScheme(ViewerState, <<>>, color))
    /\ UNCHANGED <<moduleVars, motionVars, polytopeData, triResult, threw, pc, currentPolytopeFilename, pending>>

\* The user moves the face opacity slider.
onOpacityChange ==
    /\ pc = "running"
    /\ ~elements.faceOpacitySliderDisabled
    /\ \E opacityValue \in SliderValues :
          SetViewer(updateFaceOpacity(ViewerState, opacityValue))
    /\ UNCHANGED <<moduleVars, motionVars, callVars, appVars>>

Next ==
    \/ InitApp
    \/ ManifestFails
    \/ ManifestLoads
    \/ LoadSettles
    \/ handlePolytopeSelectionChange
    \/ handleColorSchemeChange
    \/ handleFaceColorChange
    \/ onOpacityChange

\* The page from its load on, under any user and any server.
Spec == Init /\ [][Next]_vars

\* =================================================================
\* The viewer on its own: rebuilds, animation, autorotation, GIF export
\* =================================================================
\* The rotation with one more increment of animate, of the frame capture.
Animated(rotation) == [rotation EXCEPT !.animate = @ + 1]

Captured(rotation) == [rotation EXCEPT !.capture = @ + 1]

\* rotation.set(0, 0, 0) on each of the three objects that exists.
ResetRotations(v) ==
    [v EXCEPT !.currentPolytopeMesh.rotation =
                  IF v.currentPolytopeMesh.isNull THEN @ ELSE ZeroRotation,
              !.currentEdgesMesh.rotation =
                  IF v.currentEdgesMesh.isNull THEN @ ELSE ZeroRotation,
              !.currentVerticesMesh.rotation =
                  IF v.currentVerticesMesh.isNull THEN @ ELSE ZeroRotation]

\* rotation.copy(currentPolytopeMesh.rotation) on the edge mesh and on the
\* vertex group, whichever exists.
CopyRotation(v) ==
    [v EXCEPT !.currentEdgesMesh.rotation =
                  IF v.currentEdgesMesh.isNull THEN @ ELSE v.currentPolytopeMesh.rotation,
              !.currentVerticesMesh.rotation =
                  IF v.currentVerticesMesh.isNull THEN @ ELSE v.currentPolytopeMesh.rotation]

\* The viewer objects after the rotation block of toggleAutorotation(enabled).
toggleAutorotation(v, enabled) ==
    IF ~enabled /\ ~v.currentPolytopeMesh.isNull
    THEN ResetRotations(v)
    ELSE v

\* The viewer objects after the autorotation block of animate.
animate(v, enabled) ==
    IF enabled /\ ~v.currentPolytopeMesh.isNull
    THEN CopyRotation([v EXCEPT !.currentPolytopeMesh.rotation = Animated(@)])
    ELSE v

\* updateVertexSize leaving the new group at the rotation it is made with.
updateVertexSize_FreshRotation(v, size) ==
    IF v.currentVerticesMesh.isNull
    THEN v
    ELSE [v EXCEPT !.currentVerticesMesh =
            [isNull   |-> FALSE,
             children |-> v.currentVerticesMesh.children,
             size     |-> size,
             rotation |-> ZeroRotation]]

\* The viewer objects after updateVertexSize(size): a new group of as many
\* spheres, with the rotation of the old one.
updateVertexSize(v, size) ==
    IF v.currentVerticesMesh.isNull
    THEN v
    ELSE [v EXCEPT !.currentVerticesMesh =
            [isNull   |-> FALSE,
             children |-> v.currentVerticesMesh.children,
             size     |-> size,
             rotation |-> v.currentVerticesMesh.rotation]]

\* captureFrame of an exportToGIF call, on the state e of that call: the
\* frame is added, and with frames still to come the mesh is turned, which
\* raises a TypeError when there is no mesh; with none to come gif.render()
\* is called.
captureFrame(v, e) ==
    LET framesCaptured == e.framesCaptured + 1
    IN  IF framesCaptured < e.totalFrames
        THEN IF v.currentPolytopeMesh.isNull
             THEN [viewer |-> v,
                   export |-> [e EXCEPT !.framesCaptured = framesCaptured,
                                        !.phase = "failed"]]
             ELSE [viewer |-> CopyRotation(
                                 [v EXCEPT !.currentPolytopeMesh.rotation = Captured(@)]),
                   export |-> [e EXCEPT !.framesCaptured = framesCaptured]]
        ELSE [viewer |-> v,
              export |-> [e EXCEPT !.framesCaptured = framesCaptured,
                                   !.phase = "rendering"]]

\* The descriptions the viewer is handed: none, those of the files, and a
\* tetrahedron without its vertices property and with an empty vertex list.
ViewerDescriptions ==
    {NullData} \cup {PolytopeFiles[f] : f \in Filenames}
        \cup {Data(Null, PolytopeFiles["tetrahedron.json"].faces),
               Data(Arr(<<>>), PolytopeFiles["tetrahedron.json"].faces)}

VertexSizes == {20, 50}

ViewerSpecInit ==
    /\ ViewerInit
    /\ ModulesInit
    /\ AppInit("#ffffff")
    /\ polytopeData = NullData
    /\ triResult = [indices |-> <<>>, groups |-> <<>>]
    /\ threw = FALSE
    /\ pc = "viewer"

\* updatePolytopeMesh(d) by any caller.
Rebuild ==
    /\ \E d \in ViewerDescriptions :
          LET v == updatePolytopeMesh(d)
          IN  /\ SetViewer(v)
              /\ threw' = v.threw
              /\ polytopeData' = d
    /\ UNCHANGED <<moduleVars, triResult, pc, appVars, motionVars>>

\* One animation frame.  captureFrameFunction is never assigned, so the
\* capture block of animate does nothing.
AnimationFrame ==
    /\ (autoRotationEnabled /\ ~currentPolytopeMesh.isNull) =>
           currentPolytopeMesh.rotation.animate < MaxTurns
    /\ SetViewer(animate(ViewerState, autoRotationEnabled))
    /\ UNCHANGED <<moduleVars, callVars, appVars, motionVars>>

ToggleAutorotation ==
    /\ \E enabled \in BOOLEAN :
          /\ autoRotationEnabled' = enabled
          /\ SetViewer(toggleAutorotation(ViewerState, enabled))
    /\ UNCHANGED <<moduleVars, callVars, appVars, gifExports>>

UpdateVertexSize ==
    /\ \E size \in VertexSizes : SetViewer(updateVertexSize(ViewerState, size))
    /\ UNCHANGED <<moduleVars, callVars, appVars, motionVars>>

\* exportToGIF with duration and fps giving totalFrames frames, up to the
\* return of its first captureFrame call; a TypeError of that call is
\* caught by exportToGIF, which then only alerts, the progress indicator
\* staying in the document.
ExportToGIF ==
    /\ Len(gifExports) < MaxExports
    /\ \E totalFrames \in 0..MaxFrames :
          LET e == [wasAutorotating |-> autoRotationEnabled,
                    totalFrames     |-> totalFrames,
                    framesCaptured  |-> 0,
                    progressDiv     |-> TRUE,
                    phase           |-> "capturing"]
              first == captureFrame(ResetRotations(toggleAutorotation(ViewerState, TRUE)), e)
          IN  /\ autoRotationEnabled' = TRUE
              /\ SetViewer(first.viewer)
              /\ gifExports' = Append(gifExports, first.export)
    /\ UNCHANGED <<moduleVars, callVars, appVars>>

\* The timeout of a capture under way fires: the next captureFrame call.
\* A TypeError of this call goes uncaught and ends the capture.
CaptureFrame ==
    /\ \E k \in 1..Len(gifExports) :
          /\ gifExports[k].phase = "capturing"
          /\ LET next == captureFrame(ViewerState, gifExports[k])
             IN  /\ SetViewer(next.viewer)
                 /\ gifExports' = [gifExports EXCEPT ![k] = next.export]
    /\ UNCHANGED <<moduleVars, callVars, appVars, autoRotationEnabled>>

\* The 'finished' event of a recorder that was told to render: the
\* progress indicator is removed and autorotation is set back.
GifFinished ==
    /\ \E k \in 1..Len(gifExports) :
          /\ gifExports[k].phase = "rendering"
          /\ gifExports' = SubSeq(gifExports, 1, k - 1)
                               \o SubSeq(gifExports, k + 1, Len(gifExports))
          /\ IF ~gifExports[k].wasAutorotating
             THEN /\ autoRotationEnabled' = FALSE
                  /\ SetViewer(toggleAutorotation(ViewerState, FALSE))
             ELSE UNCHANGED <<autoRotationEnabled, viewerVars>>
    /\ UNCHANGED <<moduleVars, callVars, appVars>>

ViewerNext ==
    \/ Rebuild
    \/ AnimationFrame
    \/ ToggleAutorotation
    \/ UpdateVertexSize
    \/ ExportToGIF
    \/ CaptureFrame
    \/ GifFinished

\* The viewer module under any caller.
ViewerSpec == ViewerSpecInit /\ [][ViewerNext]_vars

\* =================================================================
\* gif-recorder.js
\* =================================================================
\* The module's state as one value.
RecorderState ==
    [isRecording  |-> isRecording,
     gifRecorder  |-> gifRecorder,
     frameCount   |-> frameCount,
     targetFrames |-> targetFrames,
     recordings   |-> recordings]

SetRecorder(m) ==
    /\ isRecording' = m.isRecording
    /\ gifRecorder' = m.gifRecorder
    /\ frameCount' = m.frameCount
    /\ targetFrames' = m.targetFrames
    /\ recordings' = m.recordings

\* A recording as startRecording makes it: a new GIF without frames, and a
\* captureFrame that has not been called.
NewRecording(target) ==
    [targetFrames |-> target,
     frames       |-> 0,
     foreign      |-> 0,
     renders      |-> 0,
     finished     |-> 0,
     returns      |-> <<>>]

\* startRecording without its test of isRecording.
startRecording_NoGuard(m, duration, fps) ==
    [state    |-> [isRecording  |-> TRUE,
                   gifRecorder  |-> Len(m.recordings) + 1,
                   frameCount   |-> 0,
                   targetFrames |-> duration * fps,
                   recordings   |-> Append(m.recordings, NewRecording(duration * fps))],
     returned |-> "captureFrame"]

\* startRecording(renderer, scene, camera, {duration, fps}) on the module
\* state m: the state after it and what it returns.
startRecording(m, duration, fps) ==
    IF m.isRecording
    THEN [state |-> m, returned |-> "undefined"]
    ELSE [state    |-> [isRecording  |-> TRUE,
                        gifRecorder  |-> Len(m.recordings) + 1,
                        frameCount   |-> 0,
                        targetFrames |-> duration * fps,
                        recordings   |-> Append(m.recordings, NewRecording(duration * fps))],
          returned |-> "captureFrame"]

\* The captureFrame of a recording with > in place of >= in its test of
\* frameCount.
recordingCaptureFrame_OneMore(m, k) ==
    IF ~m.isRecording
    THEN [m EXCEPT !.recordings[k].returns = Append(@, FALSE)]
    ELSE LET g == m.gifRecorder
             added == [m EXCEPT !.recordings[g].frames = @ + 1,
                                !.recordings[g].foreign = IF g = k THEN @ ELSE @ + 1,
                                !.frameCount = @ + 1]
         IN  IF added.frameCount > added.targetFrames
             THEN [added EXCEPT !.isRecording = FALSE,
                                !.recordings[g].renders = @ + 1,
                                !.recordings[k].returns = Append(@, FALSE)]
             ELSE [added EXCEPT !.recordings[k].returns = Append(@, TRUE)]

\* The captureFrame that the k-th successful startRecording returned,
\* called on the module state m.  It reads isRecording, gifRecorder,
\* frameCount and targetFrames of the module, not of its own recording.
recordingCaptureFrame(m, k) ==
    IF ~m.isRecording
    THEN [m EXCEPT !.recordings[k].returns = Append(@, FALSE)]
    ELSE LET g == m.gifRecorder
             added == [m EXCEPT !.recordings[g].frames = @ + 1,
                                !.recordings[g].foreign = IF g = k THEN @ ELSE @ + 1,
                                !.frameCount = @ + 1]
         IN  IF added.frameCount >= added.targetFrames
             THEN [added EXCEPT !.isRecording = FALSE,
                                !.recordings[g].renders = @ + 1,
                                !.recordings[k].returns = Append(@, FALSE)]
             ELSE [added EXCEPT !.recordings[k].returns = Append(@, TRUE)]

\* The 'finished' handler of the GIF of the k-th recording.
onRecorderFinished(m, k) ==
    [m EXCEPT !.isRecording = FALSE, !.recordings[k].finished = @ + 1]

RecorderSpecInit ==
    /\ ViewerInit
    /\ ModulesInit
    /\ AppInit("#ffffff")
    /\ polytopeData = NullData
    /\ triResult = [indices |-> <<>>, groups |-> <<>>]
    /\ threw = FALSE
    /\ pc = "recorder"

\* startRecording by any caller.
StartRecording ==
    /\ startCalls < MaxStartCalls
    /\ \E duration \in 0..MaxDuration : \E fps \in 1..MaxFps :
          LET call == startRecording(RecorderState, duration, fps)
          IN  /\ SetRecorder(call.state)
              /\ lastStart' = call.returned
    /\ startCalls' = startCalls + 1
    /\ UNCHANGED <<viewerVars, callVars, appVars, motionVars, loaderVars>>

\* The calls of captureFrame functions so far.
RECURSIVE CaptureCalls(_)
CaptureCalls(recs) ==
    IF recs = <<>> THEN 0 ELSE Len(Head(recs).returns) + CaptureCalls(Tail(recs))

\* A caller calls a captureFrame it holds.
RecordingCaptureFrame ==
    /\ CaptureCalls(recordings) < MaxCaptureCalls
    /\ \E k \in 1..Len(recordings) :
          /\ SetRecorder(recordingCaptureFrame(RecorderState, k))
    /\ UNCHANGED <<viewerVars, callVars, appVars, motionVars, loaderVars, startCalls, lastStart>>

\* A GIF that was told to render emits 'finished'.
RecorderFinished ==
    /\ \E k \in 1..Len(recordings) :
          /\ recordings[k].finished < recordings[k].renders
          /\ SetRecorder(onRecorderFinished(RecorderState, k))
    /\ UNCHANGED <<viewerVars, callVars, appVars, motionVars, loaderVars, startCalls, lastStart>>

RecorderNext ==
    \/ StartRecording
    \/ RecordingCaptureFrame
    \/ RecorderFinished

\* gif-recorder.js under any caller.
RecorderSpec == RecorderSpecInit /\ [][RecorderNext]_vars

\* ---------------------------------------- the viewer's style functions
\* The colours applyColorScheme is called with.
StyleColors == PickerColors \cup {"#000000", "#ff00ff"}

\* applyColorScheme(schemeColors, singleHexColor) by any caller.
ApplyColorScheme ==
    /\ \E schemeColors \in {COLOR_SCHEMES[n] : n \in SchemeNames} :
       \E singleHexColor \in StyleColors \cup {""} :
          SetViewer(applyColorScheme(ViewerState, schemeColors, singleHexColor))
    /\ UNCHANGED <<moduleVars, callVars, appVars, motionVars>>

\* updateFaceOpacity(opacityValue) by any caller.
UpdateFaceOpacity ==
    /\ \E opacityValue \in SliderValues :
          SetViewer(updateFaceOpacity(ViewerState, opacityValue))
    /\ UNCHANGED <<moduleVars, callVars, appVars, motionVars>>

StyleNext ==
    \/ Rebuild
    \/ ApplyColorScheme
    \/ UpdateFaceOpacity

\* The viewer rebuilt and restyled by any caller.
StyleSpec == ViewerSpecInit /\ [][StyleNext]_vars

\* =================================================================
\* Properties of triangulateFaces and of the edge extraction (TriSpec)
\* =================================================================
\* The faces list of the description under test (empty when the faces
\* value is not an Array).
InputFaces == IF IsArray(polytopeData.faces) THEN polytopeData.faces.elems ELSE <<>>

\* triangulateFaces has just returned triResult.
Returned == pc = "triangulated"

Updated == pc = "updated"

\* The JS positions i of the fan triangles (v[0], v[i], v[i+1]) of a face
\* whose three indices are all numbers; none for a face that is skipped.
NumericFan(face) ==
    IF IsArray(face) /\ Length(face) >= 3
    THEN {i \in 1..(Length(face) - 2) :
             IsNumber(At(face, 0)) /\ IsNumber(At(face, i)) /\ IsNumber(At(face, i + 1))}
    ELSE {}

AllNumeric(face) == \A i \in 1..Length(face) : IsNumber(face.elems[i])

\* The j-th smallest member of a set of integers.
Nth(S, j) == CHOOSE i \in S : Cardinality({x \in S : x < i}) = j - 1

\* The triangles (v[0], v[i], v[i+1]) of face for the positions i in S,
\* in increasing i, as a flat index sequence.
FanOver(face, S) ==
    [p \in 1..(3 * Cardinality(S)) |->
        LET i == Nth(S, ((p - 1) \div 3) + 1)
            c == (p - 1) % 3
        IN  IF c = 0 THEN At(face, 0) ELSE IF c = 1 THEN At(face, i) ELSE At(face, i + 1)]

\* The faces before position k that yield a triangle, and the number of
\* indices they yield together.
ProductiveBefore(faces, k) == {j \in 1..(k - 1) : NumericFan(faces[j]) # {}}

RECURSIVE EmittedBefore(_, _)
EmittedBefore(faces, k) ==
    IF k <= 1
    THEN 0
    ELSE EmittedBefore(faces, k - 1) + 3 * Cardinality(NumericFan(faces[k - 1]))

\* The part of the index buffer a group covers.
GroupSlice(r, g) == SubSeq(r.indices, g.start + 1, g.start + g.count)

RemoveAt(faces, k) == SubSeq(faces, 1, k - 1) \o SubSeq(faces, k + 1, Len(faces))

SkippedFace(face) == ~Truthy(face) \/ ~IsArray(face) \/ Length(face) < 3

\* The faces list without its skipped faces.
RECURSIVE WithoutSkipped(_)
WithoutSkipped(faces) ==
    IF faces = <<>>
    THEN <<>>
    ELSE (IF SkippedFace(Head(faces)) THEN <<>> ELSE <<Head(faces)>>)
             \o WithoutSkipped(Tail(faces))

\* C1: the groups returned by triangulateFaces tile the returned index
\* buffer in order: the first starts at 0, each later one starts where the
\* previous one ends, the last ends at indices.length, and with no group
\* the buffer is empty.
C1_GroupsTileIndices ==
    Returned =>
        LET g == triResult.groups
            n == Len(g)
        IN  /\ n = 0 => Len(triResult.indices) = 0
            /\ n > 0 => /\ g[1].start = 0
                        /\ \A k \in 2..n : g[k].start = g[k - 1].start + g[k - 1].count
                        /\ g[n].start + g[n].count = Len(triResult.indices)

C1_Witness ==
    /\ Returned
    /\ Len(triResult.groups) = 2
    /\ triResult.groups[1].count = 3
    /\ triResult.groups[2].start = 3

\* C2: a face that is an array of n >= 3 numeric indices is emitted as the
\* n-2 fan triangles (v[0], v[i], v[i+1]), i = 1..n-2 in increasing i, and
\* its group has count 3*(n-2); a numeric triangle is emitted unchanged.
C2_NumericFaceFan ==
    Returned =>
        \A k \in 1..Len(InputFaces) :
            LET face == InputFaces[k]
                n == Length(face)
                off == EmittedBefore(InputFaces, k)
                slot == Cardinality(ProductiveBefore(InputFaces, k))
            IN  (IsArray(face) /\ n >= 3 /\ AllNumeric(face)) =>
                    /\ Len(triResult.groups) > slot
                    /\ triResult.groups[slot + 1].start = off
                    /\ triResult.groups[slot + 1].count = 3 * (n - 2)
                    /\ GroupSlice(triResult, triResult.groups[slot + 1])
                           = FanOver(face, 1..(n - 2))
                    /\ n = 3 => GroupSlice(triResult, triResult.groups[slot + 1]) = face.elems

C2_Witness ==
    /\ Returned
    /\ \E k \in 1..Len(InputFaces) :
           /\ IsArray(InputFaces[k])
           /\ InputFaces[k].elems = <<0, 1, 0, 1>>
    /\ triResult.indices = <<0, 1, 0, 0, 0, 1>>

\* C3: a face that is null, not an array or shorter than 3 is skipped
\* entirely: the result equals the result for the list without such faces.
C3_SkippedFacesLeaveNoTrace ==
    Returned =>
        triResult = triangulateFaces(Arr(WithoutSkipped(InputFaces)))

C3_Witness ==
    /\ Returned
    /\ Len(InputFaces) = 2
    /\ SkippedFace(InputFaces[1])
    /\ Len(triResult.groups) = 1
    /\ triResult.groups[1].materialIndex = 0

Productive(faces) == {j \in 1..Len(faces) : NumericFan(faces[j]) # {}}

\* The index buffer and the groups of the face mesh, as triangulateFaces
\* returned them to updatePolytopeMesh.
MeshResult == [indices |-> currentPolytopeMesh.index, groups |-> currentPolytopeMesh.groups]

\* C4: the k-th group (0-based) has materialIndex k and covers the
\* triangles of the k-th input face that yields a triangle; and whenever
\* the viewer is ready, there is one face material per group of the mesh.
C4_SlotsFollowProductiveFaces ==
    /\ \A k \in 1..Len(MeshResult.groups) :
           /\ MeshResult.groups[k].materialIndex = k - 1
           /\ Cardinality(Productive(InputFaces)) >= k
           /\ LET face == InputFaces[Nth(Productive(InputFaces), k)]
              IN  GroupSlice(MeshResult, MeshResult.groups[k])
                      = FanOver(face, NumericFan(face))
    /\ isReady => Len(faceMaterials) = Len(currentPolytopeMesh.groups)

C4_Witness ==
    /\ Updated
    /\ isReady
    /\ Len(InputFaces) = 2
    /\ IsArray(InputFaces[1]) /\ Length(InputFaces[1]) = 3
    /\ NumericFan(InputFaces[1]) = {}
    /\ MeshResult.groups = <<[start |-> 0, count |-> 3, materialIndex |-> 0]>>
    /\ Len(faceMaterials) = 1

\* C5 as stated: the number of groups equals the number of input faces
\* with at least 3 indices.
C5_GroupsCountFacesOfThree ==
    Returned =>
        Len(triResult.groups)
            = Cardinality({k \in 1..Len(InputFaces) :
                              IsArray(InputFaces[k]) /\ Length(InputFaces[k]) >= 3})

\* C5 as amended: the number of groups equals the number of input faces
\* with at least 3 indices that yield at least one all-numeric fan triangle.
C5_GroupsCountProductiveFaces ==
    Returned => Len(triResult.groups) = Cardinality(Productive(InputFaces))

C5_Witness ==
    /\ Returned
    /\ Len(InputFaces) = 2
    /\ \A k \in 1..2 : IsArray(InputFaces[k]) /\ Length(InputFaces[k]) = 3
    /\ ~AllNumeric(InputFaces[1])
    /\ Len(triResult.groups) = 1

\* C6: in a face of 3 or more entries with a non-numeric index, exactly the
\* fan triangles with a non-numeric index are left out: the others are
\* emitted in order and the group's count is 3 times their number.
C6_OnlyInvalidTrianglesSkipped ==
    Returned =>
        \A k \in 1..Len(InputFaces) :
            LET face == InputFaces[k]
                off == EmittedBefore(InputFaces, k)
                slot == Cardinality(ProductiveBefore(InputFaces, k))
            IN  (IsArray(face) /\ Length(face) >= 3 /\ ~AllNumeric(face)
                    /\ NumericFan(face) # {}) =>
                    /\ Len(triResult.groups) > slot
                    /\ triResult.groups[slot + 1].start = off
                    /\ triResult.groups[slot + 1].count = 3 * Cardinality(NumericFan(face))
                    /\ GroupSlice(triResult, triResult.groups[slot + 1])
                           = FanOver(face, NumericFan(face))

C6_Witness ==
    /\ Returned
    /\ Len(InputFaces) >= 1
    /\ InputFaces[1] = Arr(<<0, NonNumeric, 0, 1>>)
    /\ triResult.indices = <<0, 0, 1>>
    /\ triResult.groups = <<[start |-> 0, count |-> 3, materialIndex |-> 0]>>

\* C7: a face of 3 or more entries without any all-numeric fan triangle
\* leaves no trace: the result equals the result for the list without it.
C7_EmptyFanLeavesNoTrace ==
    Returned =>
        \A k \in 1..Len(InputFaces) :
            (IsArray(InputFaces[k]) /\ Length(InputFaces[k]) >= 3
                /\ NumericFan(InputFaces[k]) = {}) =>
                triResult = triangulateFaces(Arr(RemoveAt(InputFaces, k)))

C7_Witness ==
    /\ Returned
    /\ Len(InputFaces) = 2
    /\ InputFaces[1] = Arr(<<0, NonNumeric, 1>>)
    /\ triResult.groups = <<[start |-> 0, count |-> 3, materialIndex |-> 0]>>

\* =================================================================
\* Properties of the page (Spec)
\* =================================================================
\* The latest description handed to updatePolytopeMesh was loaded from a
\* file, and none of its faces gives a triangle.
NoTriangleLoaded ==
    /\ pc = "running"
    /\ polytopeData.kind = "object"
    /\ Productive(InputFaces) = {}

\* C8: when no face of the description gives a triangle, triangulateFaces
\* returns an empty index buffer and an empty group list, and after
\* updatePolytopeMesh there is no face mesh, no edge mesh, no face
\* material, and isReady() is false; whatever was on display before.
C8_NoTriangleNoMesh ==
    NoTriangleLoaded =>
        /\ triangulateFaces(polytopeData.faces) = [indices |-> <<>>, groups |-> <<>>]
        /\ currentPolytopeMesh.isNull
        /\ currentEdgesMesh.isNull
        /\ faceMaterials = <<>>
        /\ ~isReady

\* The load of a description whose faces are all turned away or give no
\* triangle has settled, on a page where the user has been at work.
C8_Witness ==
    /\ NoTriangleLoaded
    /\ polytopeData = PolytopeFiles["flat.json"]
    /\ pending = <<>>
    /\ currentColorScheme = "Pastel"
    /\ currentPolytopeMesh.isNull

\* C9: once the load of a description that gives no triangle has settled,
\* the page shows an error message with a non-empty text.
C9_EmptyGeometryShowsMessage ==
    (NoTriangleLoaded /\ pending = <<>>) => elements.errorMessage # ""

\* The edges of an edge index buffer, and the canonical form of an edge.
EdgePairs(index) == [j \in 1..(Len(index) \div 2) |-> <<index[2 * j - 1], index[2 * j]>>]

Canonical(e) == <<Min(e[1], e[2]), Max(e[1], e[2])>>

\* C10: the edge list holds no two entries with the same canonical pair
\* (min(a,b), max(a,b)).
C10_NoDuplicateEdge ==
    ~currentEdgesMesh.isNull =>
        LET edges == EdgePairs(currentEdgesMesh.index)
        IN  \A i, j \in 1..Len(edges) :
                i < j => Canonical(edges[i]) # Canonical(edges[j])

C10_Witness ==
    /\ Updated
    /\ InputFaces = <<Arr(<<0, 1, 0>>), Arr(<<1, 0, 1>>)>>
    /\ currentEdgesMesh.index = <<0, 1, 0, 0, 1, 1>>

\* =================================================================
\* Properties of the edge extraction (EdgeSpec)
\* =================================================================
\* updatePolytopeMesh has returned after building the face mesh, so the
\* edge extraction has run; the edge list it left (empty without an edge
\* mesh).
Built == Updated /\ ~threw /\ ~currentPolytopeMesh.isNull

MeshEdges == EdgePairs(currentEdgesMesh.index)

CanonicalSet(edges) == {Canonical(edges[j]) : j \in 1..Len(edges)}

\* The faces the edge extraction walks, and the cyclically consecutive
\* pair of a face at JS position i.
Walked(face) == Truthy(face) /\ Length(face) >= 2

CyclicPair(face, i) == <<At(face, i), At(face, (i + 1) % Length(face))>>

NumericPair(e) == IsNumber(e[1]) /\ IsNumber(e[2])

\* The face rotated by r places to the left.
Rotation(face, r) ==
    [face EXCEPT !.elems = [p \in 1..Len(@) |-> @[((p - 1 + r) % Len(@)) + 1]]]

\* C11: replacing a face by a cyclic rotation of its index list leaves the
\* set of canonical (min, max) edges of the edge list unchanged, for every
\* face and every rotation amount.
C11_RotationKeepsEdgeSet ==
    Built =>
        LET built == CanonicalSet(MeshEdges)
        IN  \A k \in 1..Len(InputFaces) : \A r \in 1..(Length(InputFaces[k]) - 1) :
                CanonicalSet(EdgePairs(ExtractEdges(
                    Arr([InputFaces EXCEPT ![k] = Rotation(InputFaces[k], r)]))))
                  = built

C11_Witness ==
    /\ Built
    /\ InputFaces = <<Arr(<<0, 0, 1>>)>>
    /\ ExtractEdges(Arr(<<Rotation(InputFaces[1], 1)>>)) = <<0, 1, 0, 0>>
    /\ currentEdgesMesh.index = <<0, 0, 0, 1>>

\* All cyclically consecutive pairs of the walked faces, faces in input
\* order and positions in increasing order, numeric or not.
RECURSIVE AllPairs(_)
AllPairs(faces) ==
    IF faces = <<>>
    THEN <<>>
    ELSE (IF Walked(Head(faces))
          THEN [p \in 1..Length(Head(faces)) |-> CyclicPair(Head(faces), p - 1)]
          ELSE <<>>) \o AllPairs(Tail(faces))

\* The positions of the numeric pairs no earlier numeric pair joins the
\* same two indices as.
FirstDiscoveries(pairs) ==
    {p \in 1..Len(pairs) :
        /\ NumericPair(pairs[p])
        /\ \A q \in 1..(p - 1) :
               NumericPair(pairs[q]) => Canonical(pairs[q]) # Canonical(pairs[p])}

\* C12: the edge list holds the edges in the order of their first
\* discovery (faces in input order, pairs (v[i], v[(i+1) mod n]) in
\* increasing i), each as the pair (a, b) of its first occurrence, not as
\* (min, max); later occurrences change nothing.
C12_FirstDiscoveryOrder ==
    Built =>
        LET pairs == AllPairs(InputFaces)
            first == FirstDiscoveries(pairs)
        IN  /\ Len(MeshEdges) = Cardinality(first)
            /\ \A j \in 1..Len(MeshEdges) : MeshEdges[j] = pairs[Nth(first, j)]

C12_Witness ==
    /\ Built
    /\ InputFaces = <<Arr(<<1, 0, 0>>), Arr(<<0, 1>>)>>
    /\ currentEdgesMesh.index = <<1, 0, 0, 0>>

\* C13: the edge extraction skips exactly the cyclically consecutive
\* pairs with an index that is not a number: every entry of the edge list
\* is numeric, every numeric pair of a walked face is in the list up to
\* orientation, and the deduplication set holds the keys of the listed
\* edges and nothing else.
C13_OnlyNonNumericPairsSkipped ==
    Built =>
        LET edges == MeshEdges
            built == CanonicalSet(edges)
        IN  /\ \A j \in 1..Len(edges) : NumericPair(edges[j])
            /\ \A k \in 1..Len(InputFaces) :
                   Walked(InputFaces[k]) =>
                       \A i \in 0..(Length(InputFaces[k]) - 1) :
                           NumericPair(CyclicPair(InputFaces[k], i)) =>
                               Canonical(CyclicPair(InputFaces[k], i)) \in built
            /\ ForEachEdgeFace(InputFaces, 1,
                               [edgeIndices |-> <<>>, uniqueEdges |-> {}]).uniqueEdges
                   = built

C13_Witness ==
    /\ Built
    /\ InputFaces = <<Arr(<<1, 1, 0, NonNumeric>>)>>
    /\ currentEdgesMesh.index = <<1, 1, 1, 0>>

\* C14: every edge of the edge list is a cyclically consecutive pair
\* (v[i], v[(i+1) mod n]) of an input face; a fan diagonal (v[0], v[i]) is
\* in the list only when it is such a pair of some face.
C14_EdgesAreBoundaryPairs ==
    Built =>
        LET edges == MeshEdges
        IN  \A j \in 1..Len(edges) :
                \E k \in 1..Len(InputFaces) :
                    /\ Walked(InputFaces[k])
                    /\ \E i \in 0..(Length(InputFaces[k]) - 1) :
                           CyclicPair(InputFaces[k], i) = edges[j]

C14_Witness ==
    /\ Built
    /\ InputFaces = <<Arr(<<0, 1, 0, 1>>)>>
    /\ currentPolytopeMesh.index = <<0, 1, 0, 0, 0, 1>>
    /\ currentEdgesMesh.index = <<0, 1>>

\* The edge list and the triangulation of the faces list without face k.
EdgesWithout(k) == ExtractEdges(Arr(RemoveAt(InputFaces, k)))

TrianglesWithout(k) == triangulateFaces(Arr(RemoveAt(InputFaces, k)))

LengthTwo(face) == IsArray(face) /\ Length(face) = 2

\* C16 as stated: a face of length 2 such as [0,1] is skipped by
\* triangulateFaces (no index, no group, no slot) and contributes nothing
\* to the edge list either: both results are those of the list without it.
C16_LengthTwoFaceContributesNothing ==
    Built =>
        \A k \in 1..Len(InputFaces) :
            LengthTwo(InputFaces[k]) =>
                /\ MeshResult = TrianglesWithout(k)
                /\ currentEdgesMesh.index = EdgesWithout(k)

\* C16 as the code has it: a face [a, b] of length 2 is skipped by
\* triangulateFaces (no index, no group, no slot), but the edge
\* extraction walks it: with a and b numbers the edge joining them is in
\* the edge list, and the list holds nothing else the list without the
\* face would not give; with a non-number it adds no edge.
C16_LengthTwoFaceGivesItsEdge ==
    Built =>
        \A k \in 1..Len(InputFaces) :
            LengthTwo(InputFaces[k]) =>
                LET e == CyclicPair(InputFaces[k], 0)
                    built == CanonicalSet(MeshEdges)
                IN  /\ MeshResult = TrianglesWithout(k)
                    /\ NumericPair(e) =>
                           /\ Canonical(e) \in built
                           /\ built = CanonicalSet(EdgePairs(EdgesWithout(k))) \cup {Canonical(e)}
                    /\ ~NumericPair(e) => currentEdgesMesh.index = EdgesWithout(k)

C16_Witness ==
    /\ Built
    /\ InputFaces = <<Arr(<<0, 0, 0>>), Arr(<<0, 1>>)>>
    /\ currentPolytopeMesh.groups = <<[start |-> 0, count |-> 3, materialIndex |-> 0]>>
    /\ currentEdgesMesh.index = <<0, 0, 0, 1>>

ClosedPolyhedron(faces) ==
    /\ faces # <<>>
    /\ \A k \in 1..Len(faces) :
           IsArray(faces[k]) /\ Length(faces[k]) >= 3 /\ AllNumeric(faces[k])
    /\ LET pairs == AllPairs(faces)
       IN  \A p \in 1..Len(pairs) :
               Cardinality({q \in 1..Len(pairs) :
                               Canonical(pairs[q]) = Canonical(pairs[p])}) = 2

\* C15: for a closed polyhedron of all-numeric polygons, every edge on
\* exactly two faces, the mesh has one group per face, of n_f - 2
\* triangles, and the edge list has (sum of the face lengths) / 2 edges;
\* for the cube that is 6 groups of 2 triangles, 36 indices and 12 edges.
C15_ClosedPolyhedronCounts ==
    (pc = "running" /\ polytopeData.kind = "object" /\ ClosedPolyhedron(InputFaces)) =>
        LET groups == currentPolytopeMesh.groups
        IN  /\ Len(groups) = Len(InputFaces)
            /\ \A k \in 1..Len(groups) :
                   groups[k].count = 3 * (Length(InputFaces[k]) - 2)
            /\ 2 * Len(MeshEdges) = Len(AllPairs(InputFaces))
            /\ polytopeData = PolytopeFiles["cube.json"] =>
                   /\ Len(groups) = 6
                   /\ \A k \in 1..6 : groups[k].count = 6
                   /\ Len(currentPolytopeMesh.index) = 36
                   /\ Len(MeshEdges) = 12

C15_Witness ==
    /\ pc = "running"
    /\ polytopeData = PolytopeFiles["cube.json"]
    /\ Len(currentPolytopeMesh.groups) = 6
    /\ Len(currentPolytopeMesh.index) = 36
    /\ Len(currentEdgesMesh.index) = 24
    /\ Len(faceMaterials) = 6

\* =================================================================
\* Properties of the viewer on its own (ViewerSpec)
\* =================================================================
\* A description updatePolytopeMesh builds a mesh from: it passes the
\* validation and some face of it gives a triangle.
Renderable(d) ==
    /\ Truthy(d) /\ Truthy(d.vertices) /\ Length(d.vertices) > 0 /\ Truthy(d.faces)
    /\ IsArray(d.faces) /\ Productive(d.faces.elems) # {}

\* C18: after updatePolytopeMesh(d), whatever calls came before, the index
\* buffer, the groups, the number of face materials and the edge list are
\* those updatePolytopeMesh(d) gives on a freshly initialised viewer, a
\* function of d alone, and nothing of an earlier description remains;
\* isReady() is true only once the rebuild has run to its end.
C18_RebuildReplacesAll ==
    pc = "viewer" =>
        LET d == polytopeData
            fresh == updatePolytopeMesh(d)
        IN  /\ currentPolytopeMesh.isNull = fresh.currentPolytopeMesh.isNull
            /\ currentPolytopeMesh.index = fresh.currentPolytopeMesh.index
            /\ currentPolytopeMesh.groups = fresh.currentPolytopeMesh.groups
            /\ Len(faceMaterials) = Len(fresh.faceMaterials)
            /\ currentEdgesMesh.isNull = fresh.currentEdgesMesh.isNull
            /\ currentEdgesMesh.index = fresh.currentEdgesMesh.index
            /\ currentVerticesMesh.isNull = fresh.currentVerticesMesh.isNull
            /\ (~threw /\ Renderable(d)) =>
                   /\ MeshResult = triangulateFaces(d.faces)
                   /\ Len(faceMaterials) = Len(MeshResult.groups)
                   /\ currentEdgesMesh.index = ExtractEdges(d.faces)
                   /\ currentVerticesMesh.children = Length(d.vertices)
                   /\ isReady
            /\ (~threw /\ ~Renderable(d)) =>
                   /\ currentPolytopeMesh.isNull
                   /\ currentEdgesMesh.isNull
                   /\ currentVerticesMesh.isNull
                   /\ faceMaterials = <<>>
            /\ threw =>
                   /\ currentPolytopeMesh.isNull \/ MeshResult = triangulateFaces(d.faces)
                   /\ currentEdgesMesh.isNull
                   /\ currentVerticesMesh.isNull
            /\ isReady => (~threw /\ Renderable(d))

\* A GIF capture that began on a mesh is still under way, and the viewer
\* has since been handed a description that gives no triangle.
C18_Witness ==
    /\ pc = "viewer"
    /\ polytopeData = PolytopeFiles["flat.json"]
    /\ Len(gifExports) = 1
    /\ gifExports[1].phase = "capturing"
    /\ gifExports[1].totalFrames = 2
    /\ currentPolytopeMesh.isNull
    /\ currentEdgesMesh.isNull
    /\ ~isReady

\* C20: the face mesh, the edge mesh and the vertex group, whichever
\* exist, have the same rotation.
C20_RotationsAgree ==
    /\ (~currentPolytopeMesh.isNull /\ ~currentEdgesMesh.isNull) =>
           currentEdgesMesh.rotation = currentPolytopeMesh.rotation
    /\ (~currentPolytopeMesh.isNull /\ ~currentVerticesMesh.isNull) =>
           currentVerticesMesh.rotation = currentPolytopeMesh.rotation
    /\ (~currentEdgesMesh.isNull /\ ~currentVerticesMesh.isNull) =>
           currentVerticesMesh.rotation = currentEdgesMesh.rotation

\* A mesh with edges and resized vertex spheres, turned by animate and by
\* a GIF frame capture.
C20_Witness ==
    /\ pc = "viewer"
    /\ ~currentPolytopeMesh.isNull
    /\ currentPolytopeMesh.rotation = [animate |-> 1, capture |-> 1]
    /\ ~currentEdgesMesh.isNull
    /\ currentEdgesMesh.rotation = currentPolytopeMesh.rotation
    /\ currentVerticesMesh.size = 50
    /\ currentVerticesMesh.rotation = currentPolytopeMesh.rotation

\* =================================================================
\* triangulateFaces on anomalous input (TriSpec)
\* =================================================================
\* The triangles a faces value could give at most: len - 2 for each Array
\* of len >= 3 entries.
RECURSIVE FanCapacity(_)
FanCapacity(faces) ==
    IF faces = <<>>
    THEN 0
    ELSE (IF IsArray(Head(faces)) /\ Length(Head(faces)) >= 3
          THEN Length(Head(faces)) - 2
          ELSE 0) + FanCapacity(Tail(faces))

\* {indices, groups} as a geometry takes them: whole triangles of numbers,
\* and groups that follow one another from 0 to the end of the indices,
\* each of whole triangles and at least one, with slots 0, 1, 2, ...
WellFormed(r) ==
    /\ Len(r.indices) % 3 = 0
    /\ \A i \in 1..Len(r.indices) : IsNumber(r.indices[i])
    /\ \A k \in 1..Len(r.groups) :
          /\ r.groups[k].count > 0
          /\ r.groups[k].count % 3 = 0
          /\ r.groups[k].materialIndex = k - 1
          /\ r.groups[k].start =
                 (IF k = 1 THEN 0 ELSE r.groups[k - 1].start + r.groups[k - 1].count)
    /\ Len(r.indices) =
          (IF r.groups = <<>>
           THEN 0
           ELSE r.groups[Len(r.groups)].start + r.groups[Len(r.groups)].count)

C21_LoaderNeverRejects ==
    loaded.state # "pending" =>
        /\ loaded.state = "fulfilled"
        /\ fetched.kind \in {"networkError", "httpError", "invalidJson"} =>
               loaded.value = NullData
        /\ (fetched.kind = "json" /\ (~Truthy(fetched.body)
                                        \/ ~Truthy(fetched.body.vertices)
                                        \/ ~Truthy(fetched.body.faces))) =>
               loaded.value = NullData
        /\ (fetched.kind = "json" /\ Truthy(fetched.body)
                                   /\ Truthy(fetched.body.vertices)
                                   /\ Truthy(fetched.body.faces)) =>
               loaded.value = fetched.body

\* A body with vertices and an empty faces list was loaded and handed on.
C21_Witness ==
    /\ fetched = Json(Data(Arr(<<Arr(<<>>)>>), Arr(<<>>)))
    /\ loaded = [state |-> "fulfilled", value |-> fetched.body]

\* =================================================================
\* The indices of the mesh and of the edges (EdgeSpec)
\* =================================================================
\* The numbers among the entries of the faces of a faces list, Arrays and
\* array-like objects alike (the edge extraction walks both).
NumericEntries(faces) ==
    {faces[jn[1]].elems[jn[2]] : jn \in
        {jn \in (1..Len(faces)) \X (1..MaxFaceLen) :
            /\ jn[2] <= Length(faces[jn[1]])
            /\ IsNumber(faces[jn[1]].elems[jn[2]])}}

ValidPositions == 0..(Length(polytopeData.vertices) - 1)

\* C22: every value of the index buffer of the mesh and every endpoint of
\* every edge is a numeric entry of some input face; so when every numeric
\* face entry is a position into the vertex list, so is every output index.
C22_NoNewIndex ==
    (Updated /\ ~threw) =>
        LET entries == NumericEntries(InputFaces)
            outputs == {currentPolytopeMesh.index[i] : i \in 1..Len(currentPolytopeMesh.index)}
                       \cup {currentEdgesMesh.index[i] : i \in 1..Len(currentEdgesMesh.index)}
        IN  /\ outputs \subseteq entries
            /\ entries \subseteq ValidPositions => outputs \subseteq ValidPositions

\* A face of four entries, the last not a number, gave one triangle and
\* one edge.
C22_Witness ==
    /\ Updated
    /\ ~threw
    /\ polytopeData.faces = Arr(<<Arr(<<1, 0, 1, NonNumeric>>)>>)
    /\ currentPolytopeMesh.index = <<1, 0, 1>>
    /\ currentEdgesMesh.index = <<1, 0>>

\* =================================================================
\* The viewer cleared by an invalid description (StyleSpec)
\* =================================================================
\* The descriptions the validation of updatePolytopeMesh turns away.
Invalid(d) ==
    ~Truthy(d) \/ ~Truthy(d.vertices) \/ Length(d.vertices) = 0 \/ ~Truthy(d.faces)

\* C23: once updatePolytopeMesh has been called with null, with data
\* lacking vertices or faces, or with an empty vertex list, whatever was
\* displayed before, the face mesh, the edge mesh and the vertex group are
\* null, faceMaterials is empty and isReady() is false, and they stay so
\* under the applyColorScheme and updateFaceOpacity calls that follow.
C23_InvalidDescriptionClears ==
    (pc = "viewer" /\ Invalid(polytopeData)) =>
        /\ currentPolytopeMesh = NullMesh
        /\ currentEdgesMesh = NullEdges
        /\ currentVerticesMesh = NullVertices
        /\ faceMaterials = <<>>
        /\ ~isReady
        /\ \A schemeColors \in {COLOR_SCHEMES[n] : n \in SchemeNames} :
           \A singleHexColor \in StyleColors \cup {""} :
               applyColorScheme(ViewerState, schemeColors, singleHexColor) = ViewerState
        /\ \A opacityValue \in SliderValues :
               updateFaceOpacity(ViewerState, opacityValue) = ViewerState

\* The viewer after updatePolytopeMesh with an empty vertex list.
C23_Witness ==
    /\ pc = "viewer"
    /\ polytopeData = Data(Arr(<<>>), PolytopeFiles["tetrahedron.json"].faces)
    /\ currentPolytopeMesh.isNull
    /\ currentEdgesMesh.isNull
    /\ currentVerticesMesh.isNull
    /\ faceMaterials = <<>>

\* =================================================================
\* Loads of the page (Spec)
\* =================================================================
\* A step that starts a load, and one in which a load runs to its end.
LoadStarts == Len(pending') > Len(pending)

LoadEnds == Len(pending') < Len(pending)

\* The file of the load that ends in this step.
EndingFiles ==
    {pending[k] : k \in {n \in 1..Len(pending) :
        pending' = SubSeq(pending, 1, n - 1) \o SubSeq(pending, n + 1, Len(pending))}}

\* C24: every start of a load clears the error message and shows the
\* loading indicator; every load whose fetch settles ends with the
\* indicator hidden and the controls enabled again (the colour picker as
\* the scheme has it), whether the data was loaded, the loader returned
\* null or the build raised an error; and in the two failures an error
\* message is shown and the viewer is cleared, isReady() false.
C24_LoadEndsClean ==
    [][/\ LoadStarts => (elements'.errorMessage = "" /\ elements'.loadingStatus)
       /\ LoadEnds =>
             /\ ~elements'.loadingStatus
             /\ ~elements'.polytopeSelectDisabled
             /\ ~elements'.colorSchemeSelectDisabled
             /\ ~elements'.faceOpacitySliderDisabled
             /\ elements'.faceColorPickerDisabled =
                    (elements'.colorSchemeSelectValue # "Default Single")
             /\ elements'.errorMessage # "" =>
                    /\ currentPolytopeMesh' = NullMesh
                    /\ currentEdgesMesh' = NullEdges
                    /\ currentVerticesMesh' = NullVertices
                    /\ faceMaterials' = <<>>
                    /\ ~isReady'
             /\ elements'.errorMessage = "" =>
                    /\ Truthy(polytopeData')
                    /\ \E f \in EndingFiles : polytopeData' = PolytopeFiles[f]
                    /\ ~updatePolytopeMesh(polytopeData').threw]_vars

\* A load has ended on an error raised while building: the message is
\* shown, the indicator hidden, the selects enabled, the viewer empty.
C24_Witness ==
    /\ pc = "running"
    /\ pending = <<>>
    /\ currentPolytopeFilename = "broken.json"
    /\ elements.errorMessage = "An unexpected error occurred while loading the file."
    /\ ~elements.loadingStatus
    /\ ~elements.polytopeSelectDisabled
    /\ currentPolytopeMesh.isNull

\* C25: at most one load is in flight; once the page runs, the polytope
\* select is disabled exactly while a load is in flight; a load is started
\* only for a filename that is not empty and differs from
\* currentPolytopeFilename; and with no load in flight and isReady() true,
\* the mesh on display was built from the file currentPolytopeFilename names.
C25_OneLoadLatestSelection ==
    /\ [](/\ Len(pending) <= 1
          /\ pc = "running" => (elements.polytopeSelectDisabled <=> pending # <<>>)
          /\ (pending = <<>> /\ isReady) =>
                 /\ currentPolytopeFilename \in Filenames
                 /\ polytopeData = PolytopeFiles[currentPolytopeFilename]
                 /\ MeshResult = triangulateFaces(PolytopeFiles[currentPolytopeFilename].faces)
                 /\ currentEdgesMesh.index =
                        ExtractEdges(PolytopeFiles[currentPolytopeFilename].faces))
    /\ [][(LoadStarts /\ pc = "running") =>
             /\ currentPolytopeFilename' \in Filenames
             /\ currentPolytopeFilename' # currentPolytopeFilename
             /\ pending' = <<currentPolytopeFilename'>>]_vars

\* The cube has been loaded and built, no load is in flight, and the select
\* that names it is enabled again.
C25_Witness ==
    /\ pc = "running"
    /\ pending = <<>>
    /\ isReady
    /\ currentPolytopeFilename = "cube.json"
    /\ elements.polytopeSelectValue = "cube.json"
    /\ ~elements.polytopeSelectDisabled
    /\ Len(faceMaterials) = 6
    /\ elements.faceColorPickerValue = "#3366cc"
    /\ currentColorScheme = "Default Single"

\* C26: once the page runs and no load is in flight, the face colour
\* picker is enabled exactly when the scheme is "Default Single", and
\* currentColorScheme is the scheme selected in the colour scheme dropdown.
C26_PickerFollowsScheme ==
    (pc = "running" /\ pending = <<>>) =>
        /\ ~elements.faceColorPickerDisabled <=> currentColorScheme = "Default Single"
        /\ elements.colorSchemeSelectValue = currentColorScheme

\* The user has changed the scheme to "Default Single" and then the
\* colour of the picker: the mesh on display has that colour.
C26_Witness ==
    /\ pc = "running"
    /\ pending = <<>>
    /\ currentColorScheme = "Default Single"
    /\ elements.colorSchemeSelectValue = "Default Single"
    /\ ~elements.faceColorPickerDisabled
    /\ isReady
    /\ \A i \in 1..Len(faceMaterials) : faceMaterials[i].color = elements.faceColorPickerValue
    /\ currentPolytopeFilename = "tetrahedron.json"

\* =================================================================
\* Recordings of gif-recorder.js (RecorderSpec)
\* =================================================================
\* C27: with one recording started, of targetFrames >= 1, each call of its
\* captureFrame up to the targetFrames-th adds one frame; the calls before
\* the targetFrames-th return true; the targetFrames-th sets isRecording
\* to false, calls render once and returns false; later calls return false
\* and add no frame, so that targetFrames frames are captured in all.
C27_SingleRecordingCounts ==
    (Len(recordings) = 1 /\ recordings[1].targetFrames >= 1) =>
        LET r == recordings[1]
            calls == Len(r.returns)
        IN  /\ \A i \in 1..calls : r.returns[i] = (i < r.targetFrames)
            /\ r.frames = Min(calls, r.targetFrames)
            /\ r.foreign = 0
            /\ r.renders = (IF calls >= r.targetFrames THEN 1 ELSE 0)
            /\ isRecording = (calls < r.targetFrames)
            /\ frameCount = r.frames

\* A recording of two frames, its captureFrame called three times.
C27_Witness ==
    /\ Len(recordings) = 1
    /\ recordings[1].targetFrames = 2
    /\ recordings[1].returns = <<TRUE, FALSE, FALSE>>
    /\ recordings[1].frames = 2
    /\ recordings[1].renders = 1
    /\ ~isRecording

\* C28: a call of startRecording while isRecording is true returns
\* undefined and leaves isRecording, gifRecorder, frameCount, targetFrames
\* and the recordings with their GIFs as they were.
C28_StartWhileRecordingIsNoOp ==
    [][(startCalls' # startCalls /\ isRecording) =>
          /\ lastStart' = "undefined"
          /\ UNCHANGED <<isRecording, gifRecorder, frameCount, targetFrames, recordings>>]_vars

\* startRecording has been called a second time with one frame of two
\* captured: the recording goes on as it was.
C28_Witness ==
    /\ startCalls = 2
    /\ lastStart = "undefined"
    /\ isRecording
    /\ Len(recordings) = 1
    /\ recordings[1].targetFrames = 2
    /\ frameCount = 1
    /\ recordings[1].frames = 1

\* C29: under every interleaving of startRecording calls, captureFrame
\* calls and 'finished' events, each recording captures only its own frames,
\* at most its targetFrames, into its own GIF, which is rendered at most
\* once and only when full; and the latest recording stops only by
\* reaching its targetFrames, never by the 'finished' event or by a
\* captureFrame of an earlier recording.
C29_RecordingsIndependent ==
    \A k \in 1..Len(recordings) :
        LET r == recordings[k]
        IN  /\ r.foreign = 0
            /\ r.renders <= 1
            /\ r.frames <= Max(r.targetFrames, 1)
            /\ r.renders = 1 => r.frames = Max(r.targetFrames, 1)
            /\ (k = gifRecorder /\ ~isRecording) => r.renders = 1

\* =================================================================
\* GIF export of the viewer (ViewerSpec)
\* =================================================================
\* C30: an export that ends by an error of its frame capture leaves the
\* autorotation flag at the value it had when the export started and its
\* progress indicator removed, as does one whose GIF is finished; and an
\* export of totalFrames >= 1 frames has captured exactly totalFrames
\* frames when it calls render.
C30_ExportRestoresState ==
    \A k \in 1..Len(gifExports) :
        /\ gifExports[k].phase = "failed" =>
               /\ autoRotationEnabled = gifExports[k].wasAutorotating
               /\ ~gifExports[k].progressDiv
        /\ (gifExports[k].phase = "rendering" /\ gifExports[k].totalFrames >= 1) =>
               gifExports[k].framesCaptured = gifExports[k].totalFrames

====
